---- MODULE Spec2Model ----
(***************************************************************************)
(* Model of the Backbone aggregator of aio-abs-providers: the /search      *)
(* handler (provider fan-out, scoring, type filter, per-provider cap,      *)
(* threshold, per-provider enrichment, ranking, best-result merge), the    *)
(* providers' mapWithConcurrency pool and PUT /admin/config.               *)
(*                                                                         *)
(* JavaScript objects are functions whose DOMAIN is the set of keys that   *)
(* are present with a value other than undefined/null.  Similarities are   *)
(* integers in units of 1e-6 (so EPS = 1e-6 is 1); string similarities     *)
(* (compareTwoStrings) and weights are percentages.                        *)
(***************************************************************************)
EXTENDS Integers, Sequences, FiniteSets, TLC

VARIABLES
    config,       \* the global `config` of the backbone (server.js:95)
    providers,    \* the global provider registry `providers` (server.js:103)
    pc,           \* where the /search handler is
    reqAuthor,    \* whether the request carries a non-empty author
    reqQuery,     \* what req.query.query is: "text", "list" or "none"
    all,          \* `all`: one entry per search task, in registry order
    groups,       \* per-provider enrichment state (fullFetchPromises)
    fullResults,  \* `fullResults` before the final sort
    matches,      \* the `matches` of the response
    cfgAtStart,   \* history: the config in force when the request started
    regAtStart,   \* history: the registry in force when the request started
    cfgAtSelect,  \* history: the config read by the selection block
    http          \* the upstream HTTP calls under the axios 429 interceptor

vars == <<config, providers, pc, reqAuthor, reqQuery, all, groups, fullResults, matches,
          cfgAtStart, regAtStart, cfgAtSelect, http>>

----------------------------------------------------------------------------
(* Generic helpers *)

Has(o, k) == k \in DOMAIN o

Get(o, k, dflt) == IF k \in DOMAIN o THEN o[k] ELSE dflt

Max2(a, b) == IF a >= b THEN a ELSE b

Min2(a, b) == IF a <= b THEN a ELSE b

Abs(x) == IF x < 0 THEN -x ELSE x

Range(s) == {s[i] : i \in DOMAIN s}

RECURSIVE Flat(_)
Flat(ss) == IF ss = <<>> THEN <<>> ELSE Head(ss) \o Flat(Tail(ss))

RECURSIVE SeqMax(_)
SeqMax(s) == IF Len(s) = 1 THEN s[1] ELSE Max2(s[1], SeqMax(Tail(s)))

\* first index of s whose element satisfies P, 0 when none (Array.prototype.find)
FindIdx(s, P(_)) ==
    IF \E i \in DOMAIN s : P(s[i])
    THEN CHOOSE i \in DOMAIN s : P(s[i]) /\ \A j \in 1..(i - 1) : ~P(s[j])
    ELSE 0

\* Array.prototype.sort with a consistent comparator is a stable sort:
\* x is placed before the first y that must come strictly after it.
StableSort(s, Before(_, _)) ==
    LET Ins(x, t) ==
            LET j == FindIdx(t, LAMBDA y : Before(x, y))
            IN IF j = 0 THEN Append(t, x)
               ELSE SubSeq(t, 1, j - 1) \o <<x>> \o SubSeq(t, j, Len(t))
        f[n \in 0..Len(s)] == IF n = 0 THEN <<>> ELSE Ins(s[n], f[n - 1])
    IN f[Len(s)]

\* new Set(list) / Array.from: first occurrences, in order
RECURSIVE Dedup(_)
Dedup(s) ==
    IF s = <<>> THEN <<>>
    ELSE LET r == Dedup(SubSeq(s, 1, Len(s) - 1))
         IN IF s[Len(s)] \in Range(r) THEN r ELSE Append(r, s[Len(s)])

Take(s, n) == SubSeq(s, 1, Min2(n, Len(s)))

EmptyObj == <<>>

----------------------------------------------------------------------------
(* Providers and configuration *)

\* Object.entries(cfg.providers): the order in which reloadProviders loads
ProviderOrder == <<"audioteka", "lubimyczytac">>

ProviderNames == Range(ProviderOrder)

\* AudiotekaProvider defines mapWithConcurrency, LubimyCzytacProvider does not
HasPool(p) == p = "audioteka"

\* reloadProviders(cfg): the enabled providers, in configuration order
ReloadProviders(cfg) ==
    SelectSeq(ProviderOrder, LAMBDA p : Get(cfg.providers[p], "enabled", FALSE))

\* (config.providers && config.providers[name]) || {}
ProviderCfg(cfg, p) == IF p \in DOMAIN cfg.providers THEN cfg.providers[p] ELSE EmptyObj

\* typeof providerCfg.priority === 'number' ? providerCfg.priority : 0
PriorityOf(cfg, p) == Get(ProviderCfg(cfg, p), "priority", 0)

\* typeof providerCfg.maxResults === 'number' ? providerCfg.maxResults : 0
MaxResultsOf(cfg, p) == Get(ProviderCfg(cfg, p), "maxResults", 0)

DefaultConcurrency == 5

\* config.providers[name].concurrency || 5
LimitOf(cfg, p) ==
    LET c == Get(ProviderCfg(cfg, p), "concurrency", 0)
    IN IF c # 0 THEN c ELSE DefaultConcurrency

DefaultTitleWeight == 60

\* mutant: the configured titleWeight is ignored
TitleWeightFixed(cfg) == DefaultTitleWeight

\* titleWeight as a percentage (the code divides by 100; 0.6 when unset)
TitleWeightPct(cfg) == Get(cfg.global, "titleWeight", DefaultTitleWeight)

\* Math.max(0, Math.min(100, thresholdPct)) / 100, in units of 1e-6
Threshold(cfg) ==
    Max2(0, Min2(100, Get(cfg.global, "similarityThreshold", 0))) * 10000

AllowBooks(cfg) == Get(cfg.global, "allowBooks", TRUE)

AllowAudiobooks(cfg) == Get(cfg.global, "allowAudiobooks", TRUE)

MergeEnabled(cfg) == Get(cfg.global, "mergeBestResults", FALSE)

MergePrefs(cfg) == Get(cfg.global, "mergePreferences", EmptyObj)

----------------------------------------------------------------------------
(* Scoring and candidate selection (server.js 153-248) *)

\* stringSimilarity.compareTwoStrings(title, "dune") * 100 (Dice coefficient
\* on bigrams: 2 * common / (bigrams of a + bigrams of b))
TitleSimPct(t) ==
    CASE t = "dune" -> 100
      [] t = "dun" -> 80
      [] t = "dune ii" -> 75
      [] t = "du" -> 50
      [] OTHER -> 0

\* stringSimilarity.compareTwoStrings(a, "bert") * 100
AuthorSimPct(a) ==
    CASE a = "bert" -> 100
      [] a = "ber" -> 80
      [] a = "bertie" -> 75
      [] a = "be" -> 50
      [] OTHER -> 0

\* a record whose `authors` is a string rather than an array carries it as the
\* one-element list of that string, marked by authorsNotArray
AuthorsIsArray(m) == Has(m, "authors") /\ ~Get(m, "authorsNotArray", FALSE)

\* author.split(/\s*(?:,|;| and )\s*/).map(trim).filter(Boolean)
SplitAuthors(author) ==
    CASE author = "bert, ann" -> <<"bert", "ann">>
      [] author = "bert and ann" -> <<"bert", "ann">>
      [] author = " ; " -> <<>>
      [] OTHER -> <<author>>

\* m.authors.map(trim).filter(Boolean) for an array, the split `author` string
\* when there is no array, [] otherwise
NormSnippetAuthors(m) ==
    IF AuthorsIsArray(m) THEN SelectSeq(m.authors, LAMBDA a : a # "")
    ELSE IF Get(m, "author", "") # "" THEN SplitAuthors(m.author)
    ELSE <<>>

\* one tagged, author-normalised snippet
Tagged(cfg, p, m) ==
    [_provider |-> p, _providerPriority |-> PriorityOf(cfg, p),
     authors |-> NormSnippetAuthors(m)]
        @@ [k \in DOMAIN m \ {"authorsNotArray"} |-> m[k]]

\* mutant: one failed search discards the matches of every provider
CombinedAllOrNothing(cfg, al) ==
    IF \E i \in DOMAIN al : Has(al[i], "error") THEN <<>>
    ELSE Flat([i \in DOMAIN al |->
                 [j \in DOMAIN al[i].matches |->
                    Tagged(cfg, al[i].provider, al[i].matches[j])]])

\* `combined`: the matches of the tasks that succeeded, tagged
Combined(cfg, al) ==
    Flat([i \in DOMAIN al |->
            IF Has(al[i], "matches")
            THEN [j \in DOMAIN al[i].matches |->
                    Tagged(cfg, al[i].provider, al[i].matches[j])]
            ELSE <<>>])

\* mutant: the title and author similarities are added without weights
SimilarityUnweighted(cfg, hasAuthor, m) ==
    LET titleSimilarity == TitleSimPct(Get(m, "title", ""))
        sims == [i \in DOMAIN m.authors |-> AuthorSimPct(m.authors[i])]
    IN IF hasAuthor /\ Len(m.authors) > 0
       THEN (titleSimilarity + SeqMax(sims)) * 10000
       ELSE titleSimilarity * 10000

\* combinedSimilarity, in units of 1e-6
Similarity(cfg, hasAuthor, m) ==
    LET titleSimilarity == TitleSimPct(Get(m, "title", ""))
        titleWeight == TitleWeightPct(cfg)
        sims == [i \in DOMAIN m.authors |-> AuthorSimPct(m.authors[i])]
    IN IF hasAuthor /\ Len(m.authors) > 0
       THEN (titleSimilarity * titleWeight + SeqMax(sims) * (100 - titleWeight)) * 100
       ELSE titleSimilarity * 10000

Scored(cfg, hasAuthor, al) ==
    LET c == Combined(cfg, al)
    IN [i \in DOMAIN c |-> [similarity |-> Similarity(cfg, hasAuthor, c[i])] @@ c[i]]

IsAudio(m) == Get(m, "type", "") = "audiobook" \/ Get(m, "format", "") = "audiobook"

\* the allowBooks / allowAudiobooks filter
TypeFiltered(cfg, scored) ==
    SelectSeq(scored, LAMBDA m :
        /\ ~(IsAudio(m) /\ ~AllowAudiobooks(cfg))
        /\ ~(~IsAudio(m) /\ ~AllowBooks(cfg)))

\* keys of a grouping reduce: providers in order of first appearance
GroupKeys(list) == Dedup([i \in DOMAIN list |-> list[i]._provider])

GroupOf(list, p) == SelectSeq(list, LAMBDA m : m._provider = p)

\* mutant: the cap is never applied
CapProviderUncapped(cfg, p, ms) ==
    StableSort(ms, LAMBDA a, b : a.similarity > b.similarity)

\* mutant: the cap keeps the first matches in arrival order instead of the best
CapProviderUnsorted(cfg, p, ms) ==
    LET max == MaxResultsOf(cfg, p)
    IN IF max > 0 THEN Take(ms, max) ELSE ms

\* matches.slice().sort(similarity desc), then slice(0, max) when max > 0
CapProvider(cfg, p, ms) ==
    LET sorted == StableSort(ms, LAMBDA a, b : a.similarity > b.similarity)
        max == MaxResultsOf(cfg, p)
    IN IF max > 0 THEN Take(sorted, max) ELSE sorted

\* `capped`
Capped(cfg, filtered) ==
    LET keys == GroupKeys(filtered)
    IN Flat([k \in DOMAIN keys |-> CapProvider(cfg, keys[k], GroupOf(filtered, keys[k]))])

\* `candidates`: the capped matches at or above the threshold
Candidates(cfg, hasAuthor, al) ==
    SelectSeq(Capped(cfg, TypeFiltered(cfg, Scored(cfg, hasAuthor, al))),
              LAMBDA m : m.similarity >= Threshold(cfg))


----------------------------------------------------------------------------
(* Ranking (server.js 317-326) *)

PriorityNum(m) == Get(m, "_providerPriority", 0)

\* mutant: the comparator stops at the audiobook key
RankBeforeNoPriority(a, b) ==
    \/ a.similarity > b.similarity
    \/ /\ a.similarity = b.similarity
       /\ IsAudio(a) /\ ~IsAudio(b)

\* mutant: the enriched results are returned in arrival order
RankAsGiven(results) == results

\* the comparator of fullResults.sort: a goes strictly before b
RankBefore(a, b) ==
    \/ a.similarity > b.similarity
    \/ /\ a.similarity = b.similarity
       /\ IsAudio(a) /\ ~IsAudio(b)
    \/ /\ a.similarity = b.similarity
       /\ IsAudio(a) = IsAudio(b)
       /\ PriorityNum(a) > PriorityNum(b)

Rank(results) == StableSort(results, RankBefore)

----------------------------------------------------------------------------
(* Best-result merge (server.js 328-591) *)

EPS == 1

ListFields == {"authors", "languages", "genres", "tags"}

ObjFields == {"identifiers", "source"}

NumFields == {"rating", "duration", "seriesIndex", "similarity", "_providerPriority"}

\* a provider gives `series` as a string or as an array of strings: the value
\* is [str |-> s] or [arr |-> <<s1, ...>>]; a string is truthy unless it is ''
SeriesTruthy(v) == IF Has(v, "arr") THEN TRUE ELSE v.str # ""

\* JavaScript truthiness of a value of field f (arrays and objects are truthy)
TruthyVal(f, v) ==
    CASE f \in ListFields \cup ObjFields -> TRUE
      [] f = "series" -> SeriesTruthy(v)
      [] f \in NumFields -> v # 0
      [] OTHER -> v # ""

\* !!item[f]
Truthy(item, f) == Has(item, f) /\ TruthyVal(f, item[f])

CountedFields ==
    {"title", "authors", "narrator", "description", "cover", "type", "url", "id",
     "languages", "publisher", "publishedDate", "series", "genres", "tags",
     "identifiers"}

CountNonEmpty(item) == Cardinality({f \in CountedFields : Truthy(item, f)})

\* topGroup: the results within EPS of the similarity of fullResults[0]
TopGroup(ranked) ==
    SelectSeq(ranked, LAMBDA fr : Abs(fr.similarity - ranked[1].similarity) <= EPS)

\* the resolution order: priority descending, then countNonEmpty descending
SortedGroup(topGroup) ==
    StableSort(topGroup, LAMBDA a, b :
        \/ PriorityNum(a) > PriorityNum(b)
        \/ PriorityNum(a) = PriorityNum(b) /\ CountNonEmpty(a) > CountNonEmpty(b))

HasField(item, field) ==
    CASE field = "language" -> Has(item, "languages") /\ Len(item.languages) > 0
      [] field = "identifiers" ->
            Has(item, "identifiers") /\ DOMAIN item.identifiers # {}
      [] field \in ListFields -> Has(item, field) /\ Len(item[field]) > 0
      [] field \in NumFields \cup ObjFields -> Has(item, field)
      [] OTHER -> Has(item, field) /\ item[field] # ""

\* only used where HasField holds
GetFieldValue(item, field) ==
    IF field = "language" THEN item.languages[1] ELSE item[field]

NoPick == EmptyObj

PickFieldAndSource(prefs, sg, field) ==
    LET preferred == Get(prefs, field, "")
        p == IF preferred # ""
             THEN FindIdx(sg, LAMBDA i : i._provider = preferred /\ HasField(i, field))
             ELSE 0
        c == FindIdx(sg, LAMBDA i : HasField(i, field))
    IN IF p > 0 THEN [value |-> GetFieldValue(sg[p], field), source |-> preferred]
       ELSE IF c > 0 THEN [value |-> GetFieldValue(sg[c], field), source |-> sg[c]._provider]
       ELSE NoPick

HasIdentifier(i, key) == Has(i, "identifiers") /\ Get(i.identifiers, key, "") # ""

\* mutant: the first non-empty value in resolution order, whatever is preferred
PickIdentifierUnpreferred(prefs, sg, key) ==
    LET c == FindIdx(sg, LAMBDA i : HasIdentifier(i, key))
    IN IF c > 0 THEN [value |-> sg[c].identifiers[key], source |-> sg[c]._provider]
       ELSE NoPick

\* consults mergePreferences.identifiers, whatever the key
PickIdentifierAndSource(prefs, sg, key) ==
    LET preferred == Get(prefs, "identifiers", "")
        p == IF preferred # ""
             THEN FindIdx(sg, LAMBDA i : i._provider = preferred /\ HasIdentifier(i, key))
             ELSE 0
        c == FindIdx(sg, LAMBDA i : HasIdentifier(i, key))
    IN IF p > 0 THEN [value |-> sg[p].identifiers[key], source |-> preferred]
       ELSE IF c > 0 THEN [value |-> sg[c].identifiers[key], source |-> sg[c]._provider]
       ELSE NoPick

\* new Date(publishedDate).getFullYear(), "" when the date does not parse
YearOf(d) ==
    CASE d = "1965-08-01" -> "1965"
      [] d = "1984-01-01" -> "1984"
      [] OTHER -> ""

PickPublishedYearAndSource(prefs, sg) ==
    LET preferred == Get(prefs, "publishedYear", "")
        p == IF preferred # ""
             THEN FindIdx(sg, LAMBDA i : i._provider = preferred /\ Truthy(i, "publishedDate"))
             ELSE 0
        c == FindIdx(sg, LAMBDA i : Truthy(i, "publishedDate") /\ YearOf(i.publishedDate) # "")
    IN IF p > 0 THEN [value |-> YearOf(sg[p].publishedDate), source |-> preferred]
       ELSE IF c > 0 THEN [value |-> YearOf(sg[c].publishedDate), source |-> sg[c]._provider]
       ELSE NoPick

PickLanguageAndSource(prefs, sg) ==
    LET preferred == Get(prefs, "language", "")
        p == IF preferred # ""
             THEN FindIdx(sg, LAMBDA i : i._provider = preferred /\ HasField(i, "language"))
             ELSE 0
        c == FindIdx(sg, LAMBDA i : HasField(i, "language"))
    IN IF p > 0 THEN [value |-> sg[p].languages[1], source |-> preferred]
       ELSE IF c > 0 THEN [value |-> sg[c].languages[1], source |-> sg[c]._provider]
       ELSE NoPick

\* pick.value || dflt
ValueOr(pick, f, dflt) ==
    IF Has(pick, "value") /\ TruthyVal(f, pick.value) THEN pick.value ELSE dflt

\* { k: pick.value } when pick.value is truthy, nothing (undefined / null) otherwise
KeyIf(k, pick, f) ==
    IF Has(pick, "value") /\ TruthyVal(f, pick.value) THEN k :> pick.value ELSE EmptyObj

\* the cover pick, with the audiobook fallback when the pick gave nothing
CoverPick(prefs, sg) ==
    LET coverPick == PickFieldAndSource(prefs, sg, "cover")
        a == FindIdx(sg, LAMBDA i : IsAudio(i) /\ Truthy(i, "cover"))
    IN IF Has(coverPick, "value") /\ TruthyVal("cover", coverPick.value) THEN coverPick
       ELSE IF a > 0 THEN [value |-> sg[a].cover, source |-> sg[a]._provider]
       ELSE coverPick

\* (s || '').toString().trim().toLowerCase()
Normalize(s) ==
    CASE s = "SciFi" -> "scifi"
      [] s = " scifi " -> "scifi"
      [] s = "  " -> ""
      [] OTHER -> s

ListOf(i, field) == IF Has(i, field) THEN i[field] ELSE <<>>

PickListPrefOrUnion(prefs, sg, field) ==
    LET preferredProvider == Get(prefs, field, "")
        p == IF preferredProvider # ""
             THEN FindIdx(sg, LAMBDA i : i._provider = preferredProvider
                                          /\ Has(i, field) /\ Len(i[field]) > 0)
             ELSE 0
        every == Flat([k \in DOMAIN sg |-> ListOf(sg[k], field)])
        normalized == [k \in DOMAIN every |-> Normalize(every[k])]
    IN IF p > 0 THEN sg[p][field]
       ELSE Dedup(SelectSeq(normalized, LAMBDA n : n # ""))

\* the provenance recorded for genres, tags and series
ListSource(prefs, sg, field) ==
    IF Get(prefs, field, "") # "" THEN prefs[field]
    ELSE LET withList == SelectSeq(sg, LAMBDA i : Has(i, field) /\ Len(i[field]) > 0)
         IN Dedup([k \in DOMAIN withList |-> withList[k]._provider])

\* union of the members' languages
Languages(sg) == Dedup(Flat([k \in DOMAIN sg |-> ListOf(sg[k], "languages")]))

IdentifierKeys(sg) ==
    UNION {IF Has(sg[k], "identifiers") THEN DOMAIN sg[k].identifiers ELSE {} :
           k \in DOMAIN sg}

\* identifiers: for each key the first truthy value in resolution order
\* mutant: a later member's value overwrites an earlier one's
IdentifiersLastWins(sg) ==
    LET keys == {k \in IdentifierKeys(sg) : \E i \in DOMAIN sg : HasIdentifier(sg[i], k)}
        last(k) == CHOOSE i \in DOMAIN sg :
                      HasIdentifier(sg[i], k) /\ \A j \in (i + 1)..Len(sg) : ~HasIdentifier(sg[j], k)
    IN [k \in keys |-> sg[last(k)].identifiers[k]]

Identifiers(sg) ==
    LET keys == {k \in IdentifierKeys(sg) : \E i \in DOMAIN sg : HasIdentifier(sg[i], k)}
    IN [k \in keys |->
          sg[FindIdx(sg, LAMBDA i : HasIdentifier(i, k))].identifiers[k]]

SingleFields == <<"narrator", "publisher", "language", "subtitle", "duration", "url", "source">>

\* i[f] || (f === 'language' && i.languages && i.languages.length)
Contributes(i, f) ==
    Truthy(i, f) \/ (f = "language" /\ Has(i, "languages") /\ Len(i.languages) > 0)

\* provenance of the single-valued fields of singleFields
SingleSources(prefs, sg) ==
    LET src(f) ==
            LET pref == Get(prefs, f, "")
                p == IF pref # ""
                     THEN FindIdx(sg, LAMBDA i : i._provider = pref /\ Contributes(i, f))
                     ELSE 0
                c == FindIdx(sg, LAMBDA i : Contributes(i, f))
            IN IF p > 0 THEN pref ELSE IF c > 0 THEN sg[c]._provider ELSE ""
        recorded == {f \in Range(SingleFields) : src(f) # ""}
    IN [f \in recorded |-> src(f)]

\* merged._mergedFieldSources
MergedFieldSources(prefs, sg) ==
    SingleSources(prefs, sg) @@
    [genres |-> ListSource(prefs, sg, "genres"),
     tags |-> ListSource(prefs, sg, "tags"),
     series |-> IF Get(prefs, "series", "") # "" THEN prefs.series
                ELSE LET withSeries == SelectSeq(sg, LAMBDA i :
                             /\ Truthy(i, "series")
                             /\ Has(i.series, "arr") => Len(i.series.arr) > 0)
                     IN Dedup([k \in DOMAIN withSeries |-> withSeries[k]._provider])]

\* topGroup.map(i => ({ provider: i._provider, id: i.id || i._id || null }))
MergedFrom(topGroup) ==
    [k \in DOMAIN topGroup |->
        [provider |-> topGroup[k]._provider] @@
        (IF Truthy(topGroup[k], "id") THEN [id |-> topGroup[k].id]
         ELSE IF Truthy(topGroup[k], "_id") THEN [id |-> topGroup[k]._id]
         ELSE EmptyObj)]

\* whether authorsPick.value is an array (or nothing was picked)
AuthorsPickIsArray(prefs, sg) ==
    LET preferred == Get(prefs, "authors", "")
        p == IF preferred # ""
             THEN FindIdx(sg, LAMBDA i : i._provider = preferred /\ HasField(i, "authors"))
             ELSE 0
        c == FindIdx(sg, LAMBDA i : HasField(i, "authors"))
    IN IF p > 0 THEN AuthorsIsArray(sg[p])
       ELSE IF c > 0 THEN AuthorsIsArray(sg[c])
       ELSE TRUE

MergedSourceDefault == [id |-> "merged", description |-> "Merged result"]

\* the loop's `if (!seriesIndex && it.seriesIndex is defined and not null)
\* seriesIndex = it.seriesIndex` over the members from k on; an absent key
\* stands for null
RECURSIVE SeriesIndexFrom(_, _, _)
SeriesIndexFrom(sg, k, cur) ==
    IF k > Len(sg) THEN cur
    ELSE SeriesIndexFrom(sg, k + 1,
            IF ~Truthy(cur, "seriesIndex") /\ Has(sg[k], "seriesIndex")
            THEN [seriesIndex |-> sg[k].seriesIndex] ELSE cur)

\* merged.series and merged.seriesIndex (absent when undefined or null).
\* SeriesAdded is what the loop adds to seriesSet for one member: the `else` of
\*   if (Array.isArray(it.series)) for (const s of it.series) if (s) add(s);
\*   else if (it.series) add(it.series);
\* belongs to `if (s)`, so an empty entry of an array adds the array itself
\* and a series that is not an array adds nothing
MergedSeries(prefs, sg) ==
    LET String(n) == CASE n = 0 -> "0" [] n = 1 -> "1" [] n = 2 -> "2" [] n = 3 -> "3"
        SeriesAdded(it) ==
            IF Has(it, "series") /\ Has(it.series, "arr")
            THEN [j \in DOMAIN it.series.arr |->
                    IF it.series.arr[j] # "" THEN [str |-> it.series.arr[j]]
                    ELSE it.series]
            ELSE <<>>
        seriesPref == Get(prefs, "series", "")
        p == IF seriesPref # ""
             THEN FindIdx(sg, LAMBDA i : i._provider = seriesPref /\ Truthy(i, "series"))
             ELSE 0
        preferred == IF p = 0 THEN [str |-> ""]
                     ELSE IF Has(sg[p].series, "arr")
                          THEN [str |-> IF Len(sg[p].series.arr) > 0
                                        THEN sg[p].series.arr[1] ELSE ""]
                          ELSE sg[p].series
        ofPreferred == IF p > 0 /\ Has(sg[p], "seriesIndex")
                       THEN [seriesIndex |-> sg[p].seriesIndex] ELSE EmptyObj
        seriesArr == Dedup(Flat([k \in DOMAIN sg |-> SeriesAdded(sg[k])]))
        chosenSeries == IF SeriesTruthy(preferred) THEN preferred
                        ELSE IF Len(seriesArr) > 0 THEN seriesArr[1] ELSE [str |-> ""]
        seriesIndex == IF SeriesTruthy(preferred) THEN ofPreferred
                       ELSE SeriesIndexFrom(sg, 1, ofPreferred)
    IN (IF SeriesTruthy(chosenSeries)
        THEN [series |-> <<[series |-> chosenSeries] @@
                           (IF Has(seriesIndex, "seriesIndex")
                            THEN [sequence |-> String(seriesIndex.seriesIndex)]
                            ELSE EmptyObj)>>]
        ELSE EmptyObj)
       @@ seriesIndex

\* the synthetic record built from the tie group
BuildMerged(prefs, topGroup) ==
    LET sg == SortedGroup(topGroup)
        F(f) == PickFieldAndSource(prefs, sg, f)
        idPick == F("id")
        id == IF Has(idPick, "value") /\ idPick.value # "" THEN idPick.value
              ELSE ValueOr(PickIdentifierAndSource(prefs, sg, "lubimyczytac"), "id",
                     ValueOr(PickIdentifierAndSource(prefs, sg, "audioteka"), "id", ""))
        prios == [k \in DOMAIN topGroup |-> PriorityNum(topGroup[k])]
    IN [title |-> ValueOr(F("title"), "title", ""),
        subtitle |-> ValueOr(F("subtitle"), "subtitle", ""),
        authors |-> ValueOr(F("authors"), "authors", <<>>),
        narrator |-> ValueOr(F("narrator"), "narrator", ""),
        description |-> ValueOr(F("description"), "description", ""),
        type |-> ValueOr(F("type"), "type",
                    IF \E k \in DOMAIN topGroup : Get(topGroup[k], "type", "") = "audiobook"
                    THEN "audiobook" ELSE "book"),
        similarity |-> topGroup[1].similarity,
        id |-> id,
        url |-> ValueOr(F("url"), "url", ""),
        source |-> ValueOr(F("source"), "source", MergedSourceDefault),
        languages |-> Languages(sg),
        publisher |-> ValueOr(F("publisher"), "publisher", ""),
        genres |-> PickListPrefOrUnion(prefs, sg, "genres"),
        tags |-> PickListPrefOrUnion(prefs, sg, "tags"),
        identifiers |-> Identifiers(sg),
        _mergedFieldSources |-> MergedFieldSources(prefs, sg),
        _mergedFrom |-> MergedFrom(topGroup),
        _provider |-> "merged",
        _providerPriority |-> SeqMax(prios) + 1]
       @@ KeyIf("cover", CoverPick(prefs, sg), "cover")
       @@ KeyIf("publishedYear", PickPublishedYearAndSource(prefs, sg), "publishedYear")
       @@ KeyIf("rating", F("rating"), "rating")
       @@ KeyIf("isbn", PickIdentifierAndSource(prefs, sg, "isbn"), "isbn")
       @@ KeyIf("asin", PickIdentifierAndSource(prefs, sg, "asin"), "asin")
       @@ KeyIf("duration", F("duration"), "duration")
       @@ KeyIf("language", PickLanguageAndSource(prefs, sg), "language")
       @@ MergedSeries(prefs, sg)
       @@ (IF AuthorsPickIsArray(prefs, sg) THEN EmptyObj ELSE [authorsNotArray |-> TRUE])

MergedFields == {"narrator", "description", "cover", "languages", "identifiers", "genres", "tags"}

\* top.title === merged.title && top.authors && merged.authors && joins equal
SameTitleAuthors(top, merged) ==
    /\ Has(top, "title") /\ top.title = merged.title
    /\ Has(top, "authors")
    /\ top.authors = merged.authors

\* mutant: equal title and authors are enough to discard the merged record
TopFieldsUnchecked(top, merged) == TRUE

TopHasAllMergedFields(top, merged) ==
    \A f \in MergedFields :
        IF ~Truthy(merged, f) \/ (f \in ListFields /\ Len(merged[f]) = 0) THEN TRUE
        ELSE IF f \in ListFields THEN Has(top, f) /\ Len(top[f]) > 0
        ELSE IF f = "identifiers" THEN Has(top, f) /\ DOMAIN top[f] # {}
        ELSE Truthy(top, f)

\* mutant: a single top result is enough to merge
MergeFiresOnSingle(cfg, ranked) ==
    MergeEnabled(cfg) /\ Len(ranked) > 0 /\ Len(TopGroup(ranked)) > 0

\* whether the merge block builds a record at all
MergeFires(cfg, ranked) ==
    MergeEnabled(cfg) /\ Len(ranked) > 0 /\ Len(TopGroup(ranked)) > 1

\* evaluating sameTitleAuthors throws: the titles are equal, top.authors is
\* truthy, and top.authors or merged.authors has no join (it is a string)
SameTitleAuthorsThrows(top, merged) ==
    /\ Has(top, "title") /\ top.title = merged.title
    /\ Has(top, "authors")
    /\ ~AuthorsIsArray(top) \/ ~AuthorsIsArray(merged)

\* the merge block throws into its catch
MergeThrows(cfg, ranked) ==
    /\ MergeFires(cfg, ranked)
    /\ SameTitleAuthorsThrows(ranked[1], BuildMerged(MergePrefs(cfg), TopGroup(ranked)))

\* the merge block: ranked results, with the merged record unshifted unless
\* redundant; a throw is caught before the unshift and leaves them as they are
MaybeMerge(cfg, ranked) ==
    IF MergeFires(cfg, ranked) /\ ~MergeThrows(cfg, ranked)
    THEN LET merged == BuildMerged(MergePrefs(cfg), TopGroup(ranked))
             top == ranked[1]
         IN IF ~(SameTitleAuthors(top, merged) /\ TopHasAllMergedFields(top, merged))
            THEN <<merged>> \o ranked
            ELSE ranked
    ELSE ranked


\* normalizeAuthors throws: `authors` is a non-empty string and there is no
\* `author` string to split, so item.authors.join is not a function
NormalizeAuthorsThrows(item) ==
    Has(item, "authors") /\ ~AuthorsIsArray(item) /\ ~Truthy(item, "author")

\* mutant: the results are sent as the merge block left them
FinalizeItemUntouched(item) == [k \in DOMAIN item \ {"authorsNotArray"} |-> item[k]]

\* normalizeAuthors and the subtitle / publisher fill applied to every result
\* before res.json; `author` holds the list whose join(', ') the code stores
FinalizeItem(item) ==
    LET authors == IF AuthorsIsArray(item) THEN SelectSeq(item.authors, LAMBDA a : a # "")
                   ELSE IF Truthy(item, "author") THEN SplitAuthors(item.author)
                   ELSE <<>>
        author == IF Truthy(item, "author") THEN EmptyObj
                  ELSE IF Len(authors) > 0 THEN [author |-> authors] ELSE EmptyObj
        subtitle == IF ~Truthy(item, "subtitle") /\ Has(item, "identifiers")
                       /\ Get(item.identifiers, "title", "") # ""
                    THEN [subtitle |-> item.identifiers.title] ELSE EmptyObj
        publisher == IF ~Truthy(item, "publisher") /\ Has(item, "source")
                        /\ Get(item.source, "description", "") # ""
                     THEN [publisher |-> item.source.description] ELSE EmptyObj
    IN [authors |-> authors] @@ author @@ subtitle @@ publisher
         @@ [k \in DOMAIN item \ {"authorsNotArray"} |-> item[k]]

Finalize(results) == [k \in DOMAIN results |-> FinalizeItem(results[k])]

\* the loop `for (const it of fullResults) normalizeAuthors(it)` throws
FinalizeThrows(results) == \E k \in DOMAIN results : NormalizeAuthorsThrows(results[k])

\* everything the handler does after the enrichment join
ResponseMatches(cfg, full) == Finalize(MaybeMerge(cfg, Rank(full)))

\* the handler throws after the enrichment join, outside every try block
ResponseThrows(cfg, full) == FinalizeThrows(MaybeMerge(cfg, Rank(full)))

----------------------------------------------------------------------------
(* Enrichment: mapWithConcurrency (provider) and its callers (server.js 262-315) *)

Hole == [st |-> "hole"]

NullSlot == [st |-> "null"]

ValSlot(v) == [st |-> "val", v |-> v]

\* what AudiotekaProvider.getFullMetadata adds to a match when the page parses
AudiotekaMeta(match) ==
    [narrator |-> "Ann Reader", type |-> "audiobook", description |-> "audio desc",
     publisher |-> "", genres |-> <<"SciFi">>, series |-> [arr |-> <<>>], tags |-> <<>>,
     languages |-> <<"polish">>, identifiers |-> [audioteka |-> match.id]]

\* what LubimyCzytacProvider.getFullMetadata adds to a match when the page parses
LubimyCzytacMeta(match) ==
    [cover |-> "lc.jpg", description |-> "book desc", publisher |-> "Rebis",
     languages |-> <<"polish">>, genres |-> <<" scifi ">>, tags |-> <<"classic">>,
     publishedDate |-> "1965-08-01",
     identifiers |-> [isbn |-> "9788375", lubimyczytac |-> match.id]]

\* { ...match, <fields read from the detail page> }
FullMetadata(p, match) ==
    (IF p = "audioteka" THEN AudiotekaMeta(match) ELSE LubimyCzytacMeta(match)) @@ match

\* outcomes of one getFullMetadata call: the full record, the match unchanged
\* (the provider's own catch), null, or an exception
FetchOutcomes == {"full", "same", "null", "throw"}

\* the async iterator the backbone hands to mapWithConcurrency (274-284)
IteratorResult(p, match, outcome) ==
    CASE outcome = "full" -> ValSlot(FullMetadata(p, match))
      [] outcome = "same" -> ValSlot(match)
      [] OTHER -> NullSlot

\* mutant: one worker per item, whatever the limit
PoolStartUnbounded(items, limit) ==
    LET n == Len(items)
    IN [items |-> items,
        i |-> n,
        results |-> [k \in 1..n |-> Hole],
        workers |-> [w \in 1..n |-> w],
        calls |-> [k \in 1..n |-> 1],
        thrown |-> {}]

\* mapWithConcurrency up to the first await of every worker: Math.min(limit,
\* items.length) workers, each of which has claimed one index and called iteratorFn.
\* `calls` counts the iteratorFn calls per item and `thrown` (history, set by
\* the fetch actions) the items whose getFullMetadata call threw.
PoolStart(items, limit) ==
    LET n == Len(items)
        nw == Min2(limit, n)
    IN [items |-> items,
        i |-> nw,
        results |-> [k \in 1..n |-> Hole],
        workers |-> [w \in 1..nw |-> w],
        calls |-> [k \in 1..n |-> IF k <= nw THEN 1 ELSE 0],
        thrown |-> {}]

\* mutant: a worker returns after its first item
PoolSettleOnce(pool, w, slot) ==
    [pool EXCEPT !.results[pool.workers[w]] = slot, !.workers[w] = 0]

\* worker w resumes with the slot its iterator call produced: it stores the
\* result, claims idx = i++, and either returns or calls iteratorFn(items[idx])
PoolSettle(pool, w, slot) ==
    LET cur == pool.workers[w]
        idx == pool.i + 1
        n == Len(pool.items)
    IN [pool EXCEPT
          !.results[cur] = slot,
          !.i = pool.i + 1,
          !.workers[w] = IF idx > n THEN 0 ELSE idx,
          !.calls = IF idx > n THEN @ ELSE [@ EXCEPT ![idx] = @ + 1]]

\* await Promise.all(workers) has resolved
PoolResolved(pool) == \A w \in DOMAIN pool.workers : pool.workers[w] = 0

PoolInFlight(pool) == Cardinality({w \in DOMAIN pool.workers : pool.workers[w] # 0})

\* mutant: a candidate whose fetch gave nothing is passed on as it was
PoolFetchedUnfiltered(pool) ==
    [k \in DOMAIN pool.results |->
        IF pool.results[k].st = "val" THEN pool.results[k].v ELSE pool.items[k]]

\* results.filter(Boolean)
PoolFetched(pool) ==
    LET vals == SelectSeq(pool.results, LAMBDA r : r.st = "val")
    IN [k \in DOMAIN vals |-> vals[k].v]

\* one entry of fullFetchPromises, run up to its first await
GroupStart(cfg, registry, p, ms) ==
    IF p \notin Range(registry) THEN [provider |-> p, kind |-> "gone"]
    ELSE IF HasPool(p)
    THEN [provider |-> p, kind |-> "pool"] @@ PoolStart(ms, LimitOf(cfg, p))
    ELSE [provider |-> p, kind |-> "seq", items |-> ms, k |-> 1, out |-> <<>>,
          results |-> [j \in 1..Len(ms) |-> Hole],
          calls |-> [j \in 1..Len(ms) |-> IF j = 1 THEN 1 ELSE 0],
          thrown |-> {}]

\* the sequential fallback resumes with the outcome of the fetch in flight
SeqSettle(g, outcome) ==
    LET slot == IteratorResult(g.provider, g.items[g.k], outcome)
    IN [g EXCEPT
          !.out = IF slot.st = "val" THEN Append(@, slot.v) ELSE @,
          !.results[g.k] = slot,
          !.thrown = IF outcome = "throw" THEN @ \cup {g.k} ELSE @,
          !.k = g.k + 1,
          !.calls = IF g.k + 1 <= Len(g.items) THEN [@ EXCEPT ![g.k + 1] = @ + 1] ELSE @]

GroupDone(g) ==
    CASE g.kind = "pool" -> PoolResolved(g)
      [] g.kind = "seq" -> g.k > Len(g.items)
      [] OTHER -> TRUE

GroupInFlight(g) ==
    CASE g.kind = "pool" -> PoolInFlight(g)
      [] g.kind = "seq" -> IF g.k <= Len(g.items) THEN 1 ELSE 0
      [] OTHER -> 0

\* mutant: one failed fetch discards the whole provider group
GroupOutputAllOrNothing(g) ==
    IF g.kind = "gone" \/ \E k \in DOMAIN g.results : g.results[k].st = "null"
    THEN <<>>
    ELSE IF g.kind = "pool"
         THEN [k \in DOMAIN g.results |-> g.results[k].v]
         ELSE g.out

\* what the provider's entry of fullFetchPromises resolves to
GroupOutput(g) ==
    CASE g.kind = "pool" -> PoolFetched(g)
      [] g.kind = "seq" -> g.out
      [] OTHER -> <<>>

\* byProvider entries, each started
StartGroups(cfg, registry, candidates) ==
    LET keys == GroupKeys(candidates)
    IN [k \in DOMAIN keys |-> GroupStart(cfg, registry, keys[k], GroupOf(candidates, keys[k]))]

AllDone(gs) == \A k \in DOMAIN gs : GroupDone(gs[k])

\* nested.flat()
Nested(gs) == Flat([k \in DOMAIN gs |-> GroupOutput(gs[k])])


----------------------------------------------------------------------------
(* The bounded universe *)

\* most snippets one request receives from all providers together
MaxSnippets == 2

Ids == <<"1", "2", "3", "4", "5", "6", "7", "8", "9">>

AudiotekaSource == [id |-> "audioteka", description |-> "Audioteka"]

\* what a provider's searchBooks can return for one hit (query "dune", author "bert")
SnippetKinds(p) ==
    IF p = "audioteka"
    THEN {[title |-> "dune", authors |-> <<"bert">>, cover |-> "at.jpg", source |-> AudiotekaSource],
          [title |-> "dune", authors |-> <<"be">>, source |-> AudiotekaSource]}
    ELSE {[title |-> "dune", authors |-> <<"bert">>, type |-> "audiobook"],
          [title |-> "dun", authors |-> <<"bert">>, type |-> "book"]}

\* the lists of at most n snippets provider p can return, ids in list order
SnippetLists(p, n) ==
    UNION {{[j \in 1..len |-> [id |-> Ids[j]] @@ ks[j]] : ks \in [1..len -> SnippetKinds(p)]} :
           len \in 0..n}

Thresholds == {-5, 85, 150}

GlobalConfigs ==
    {[similarityThreshold |-> t, mergeBestResults |-> m] : t \in Thresholds, m \in BOOLEAN}

Optional(k, vals) == {EmptyObj} \cup {k :> v : v \in vals}

AudiotekaConfigs ==
    {[enabled |-> TRUE, priority |-> 10] @@ mr @@ cc :
        mr \in Optional("maxResults", {1, 2}), cc \in Optional("concurrency", {1})}

LubimyCzytacConfigs ==
    {[enabled |-> TRUE, priority |-> 20] @@ mr : mr \in Optional("maxResults", {1})}

Configs ==
    {[global |-> g, providers |-> [audioteka |-> a, lubimyczytac |-> l]] :
        g \in GlobalConfigs, a \in AudiotekaConfigs, l \in LubimyCzytacConfigs}

----------------------------------------------------------------------------
(* The /search handler and PUT /admin/config *)

\* req.query.query as Express parses it: a string, an array of strings when
\* the parameter is repeated (?query=a&query=b), undefined or '' when absent
QueryShapes == {"text", "list", "none"}

Pending(p) == [provider |-> p, pending |-> TRUE]

SnippetsSoFar ==
    LET lens == [i \in DOMAIN all |-> IF Has(all[i], "matches") THEN Len(all[i].matches) ELSE 0]
        sum[n \in 0..Len(lens)] == IF n = 0 THEN 0 ELSE sum[n - 1] + lens[n]
    IN sum[Len(lens)]

Init ==
    /\ config \in Configs
    /\ providers = ReloadProviders(config)
    /\ pc = "idle"
    /\ reqAuthor \in BOOLEAN
    /\ reqQuery = "text"
    /\ all = <<>>
    /\ groups = <<>>
    /\ fullResults = <<>>
    /\ matches = <<>>
    /\ cfgAtStart = config
    /\ regAtStart = providers
    /\ cfgAtSelect = config
    /\ http = <<>>

\* app.get('/search') up to `await Promise.all(tasks)`: 400 when the query is
\* missing or empty, else one searchBooks call per provider of the registry
StartSearch ==
    /\ pc = "idle"
    /\ all' = IF reqQuery = "none" THEN all
              ELSE [i \in DOMAIN providers |-> Pending(providers[i])]
    /\ pc' = IF reqQuery = "none" THEN "rejected"
             ELSE IF providers = <<>> THEN "searched" ELSE "searching"
    /\ cfgAtStart' = config
    /\ regAtStart' = providers
    /\ UNCHANGED <<http, config, providers, reqAuthor, reqQuery, groups, fullResults, matches, cfgAtSelect>>

\* one task settles: searchBooks returned matches, or threw
SearchSettle(i, outcome) ==
    /\ pc = "searching"
    /\ Has(all[i], "pending")
    /\ all' = [all EXCEPT ![i] = [provider |-> all[i].provider] @@ outcome]
    /\ pc' = IF \A j \in DOMAIN all : j # i => ~Has(all[j], "pending")
             THEN "searched" ELSE "searching"
    /\ UNCHANGED <<http, config, providers, reqAuthor, reqQuery, groups, fullResults, matches,
                   cfgAtStart, regAtStart, cfgAtSelect>>

SearchOutcomes(p) ==
    {[error |-> "Error"]} \cup
    {[matches |-> ms] : ms \in SnippetLists(p, MaxSnippets - SnippetsSoFar)}

\* the synchronous block after the join of the searches: tag, score, filter,
\* cap, threshold, group, and start every provider's metadata fetches
Select ==
    /\ pc = "searched"
    /\ IF reqQuery = "list"
       THEN \* q.trim() throws: the async handler rejects and nothing answers
            /\ pc' = "failed"
            /\ UNCHANGED <<groups, fullResults>>
       ELSE LET gs == StartGroups(config, providers, Candidates(config, reqAuthor, all))
            IN /\ groups' = gs
               /\ pc' = IF AllDone(gs) THEN "enriched" ELSE "enriching"
               /\ fullResults' = IF AllDone(gs) THEN Nested(gs) ELSE fullResults
    /\ cfgAtSelect' = config
    /\ UNCHANGED <<http, config, providers, reqAuthor, reqQuery, all, matches, cfgAtStart, regAtStart>>

Enriched(gs) ==
    /\ groups' = gs
    /\ pc' = IF AllDone(gs) THEN "enriched" ELSE "enriching"
    /\ fullResults' = IF AllDone(gs) THEN Nested(gs) ELSE fullResults
    /\ UNCHANGED <<http, config, providers, reqAuthor, reqQuery, all, matches, cfgAtStart, regAtStart,
                   cfgAtSelect>>

\* a getFullMetadata call made by worker w of a pool settles
FetchSettle(g, w, outcome) ==
    /\ pc = "enriching"
    /\ groups[g].kind = "pool"
    /\ w \in DOMAIN groups[g].workers
    /\ groups[g].workers[w] # 0
    /\ LET pool == groups[g]
           slot == IteratorResult(pool.provider, pool.items[pool.workers[w]], outcome)
           settled == PoolSettle(pool, w, slot)
       IN Enriched([groups EXCEPT ![g] =
             [settled EXCEPT !.thrown = IF outcome = "throw"
                                        THEN @ \cup {pool.workers[w]} ELSE @]])

\* the getFullMetadata call of the sequential fallback settles
SeqFetchSettle(g, outcome) ==
    /\ pc = "enriching"
    /\ groups[g].kind = "seq"
    /\ groups[g].k <= Len(groups[g].items)
    /\ Enriched([groups EXCEPT ![g] = SeqSettle(groups[g], outcome)])

\* after the enrichment join: sort, merge, normalise, res.json
Respond ==
    /\ pc = "enriched"
    /\ IF ResponseThrows(config, fullResults)
       THEN pc' = "failed" /\ matches' = matches
       ELSE pc' = "responded" /\ matches' = ResponseMatches(config, fullResults)
    /\ UNCHANGED <<http, config, providers, reqAuthor, reqQuery, all, groups, fullResults,
                   cfgAtStart, regAtStart, cfgAtSelect>>

Next ==
    \/ StartSearch
    \/ \E i \in DOMAIN all : \E o \in SearchOutcomes(all[i].provider) : SearchSettle(i, o)
    \/ Select
    \/ \E g \in DOMAIN groups : \E o \in FetchOutcomes :
          \/ \E w \in 1..MaxSnippets : FetchSettle(g, w, o)
          \/ SeqFetchSettle(g, o)
    \/ Respond

Spec == Init /\ [][Next]_vars


----------------------------------------------------------------------------
(* The axios 429 retry interceptor (server.js 14-32, provider.js 310-333).
   Each upstream call is a record: st is "idle", "sent" (waiting for the
   upstream), "failed" (an error is at rejection handler h), "sleeping" (the
   handler waits before axios.request(config)), "resolved" or "rejected";
   sends counts the requests put on the wire, retryCount is
   config._retryCount, received the statuses answered so far (0 for an error
   without a response) and issuers the handlers whose retries are pending, the
   innermost last. The interceptor is registered once by each module that is
   loaded, so an error passes one or two handlers. *)

MaxRetries == 5

\* most upstream calls at a time
MaxCalls == 2

\* rejection handler q.h throws: the next handler of the same request gets
\* the error; after the last one the request rejects, and with it the promise
\* that the handler which issued it returned
RECURSIVE Thrown(_, _)
Thrown(k, q) ==
    IF q.h < k THEN [q EXCEPT !.h = q.h + 1]
    ELSE IF q.issuers = <<>> THEN [q EXCEPT !.st = "rejected", !.h = 0]
    ELSE Thrown(k, [q EXCEPT !.h = q.issuers[Len(q.issuers)],
                             !.issuers = SubSeq(q.issuers, 1, Len(q.issuers) - 1)])

\* mutant: a 429 is retried however often it came
InterceptedUnbounded(k, q) ==
    IF q.received[Len(q.received)] = 429
    THEN [q EXCEPT !.retryCount = q.retryCount + 1, !.st = "sleeping"]
    ELSE Thrown(k, q)

\* the rejection handler: count a 429 and retry it up to MaxRetries times,
\* throw every other error and a 429 beyond that
Intercepted(k, q) ==
    IF q.received[Len(q.received)] = 429
    THEN IF q.retryCount + 1 <= MaxRetries
         THEN [q EXCEPT !.retryCount = q.retryCount + 1, !.st = "sleeping"]
         ELSE Thrown(k, [q EXCEPT !.retryCount = q.retryCount + 1])
    ELSE Thrown(k, q)

\* one step of upstream call r
HttpStep(r) ==
    /\ \/ \* the provider calls axios.get
          /\ http.calls[r].st = "idle"
          /\ http' = [http EXCEPT !.calls[r].st = "sent", !.calls[r].sends = 1]
       \/ \* the upstream answers, or the connection fails
          /\ http.calls[r].st = "sent"
          /\ \E status \in {200, 429, 500, 0} :
                http' = [http EXCEPT
                           !.calls[r].received = Append(@, status),
                           !.calls[r].st = IF status = 200 THEN "resolved" ELSE "failed",
                           !.calls[r].h = IF status = 200 THEN 0 ELSE 1,
                           !.calls[r].issuers = IF status = 200 THEN <<>> ELSE @]
       \/ \* the error reaches rejection handler h
          /\ http.calls[r].st = "failed"
          /\ http' = [http EXCEPT !.calls[r] = Intercepted(http.interceptors, @)]
       \/ \* the sleep is over: return axios.request(config)
          /\ http.calls[r].st = "sleeping"
          /\ http' = [http EXCEPT
                        !.calls[r].st = "sent",
                        !.calls[r].sends = @ + 1,
                        !.calls[r].issuers = Append(@, http.calls[r].h),
                        !.calls[r].h = 0]
    /\ UNCHANGED <<config, providers, pc, reqAuthor, reqQuery, all, groups, fullResults,
                   matches, cfgAtStart, regAtStart, cfgAtSelect>>

\* the process after module load, with MaxCalls upstream calls to come
InitRetry ==
    /\ config = [global |-> [similarityThreshold |-> 0],
                 providers |-> [audioteka |-> [enabled |-> TRUE, priority |-> 10],
                                lubimyczytac |-> [enabled |-> TRUE, priority |-> 20]]]
    /\ providers = ReloadProviders(config)
    /\ pc = "idle"
    /\ reqAuthor = TRUE
    /\ reqQuery = "text"
    /\ all = <<>>
    /\ groups = <<>>
    /\ fullResults = <<>>
    /\ matches = <<>>
    /\ cfgAtStart = config
    /\ regAtStart = providers
    /\ cfgAtSelect = config
    /\ \E k \in 1..2 :
          http = [interceptors |-> k,
                  calls |-> [r \in 1..MaxCalls |->
                                [st |-> "idle", sends |-> 0, retryCount |-> 0,
                                 received |-> <<>>, h |-> 0, issuers |-> <<>>]]]

NextRetry == \E r \in 1..MaxCalls : HttpStep(r)

SpecRetry == InitRetry /\ [][NextRetry]_vars

----------------------------------------------------------------------------
(* Properties of the request pipeline *)

Selected == pc \in {"enriching", "enriched", "responded"}

Organic(ms) == SelectSeq(ms, LAMBDA m : m._provider # "merged")

IdsOf(ms) == {ms[k].id : k \in DOMAIN ms}

\* the type-filtered scored snippets of provider p, as the selection block saw them
FilteredOf(p) == GroupOf(TypeFiltered(cfgAtSelect, Scored(cfgAtSelect, reqAuthor, all)), p)

\* the candidates of provider p handed to enrichment
CandidatesOf(p) ==
    IF \E g \in DOMAIN groups : groups[g].provider = p /\ groups[g].kind # "gone"
    THEN groups[CHOOSE g \in DOMAIN groups : groups[g].provider = p].items
    ELSE <<>>

CallsOf(p) ==
    IF \E g \in DOMAIN groups : groups[g].provider = p /\ groups[g].kind # "gone"
    THEN LET c == groups[CHOOSE g \in DOMAIN groups : groups[g].provider = p].calls
         IN Cardinality({k \in DOMAIN c : c[k] > 0})
    ELSE 0

\* C1: a provider whose configured maxResults is n > 0 hands at most n
\* candidates to enrichment, has at most n of them fetched, and has at most n
\* organic results in the matches of the response.
C1_CapEnforced ==
    \A p \in ProviderNames :
        LET n == Get(cfgAtSelect.providers[p], "maxResults", 0)
        IN (Selected /\ n > 0) =>
              /\ Len(CandidatesOf(p)) <= n
              /\ CallsOf(p) <= n
              /\ Len(GroupOf(matches, p)) <= n

\* a response in which a provider capped at 1 had two snippets at or above the
\* threshold and contributes exactly one result
C1_Witness ==
    /\ pc = "responded"
    /\ \E p \in ProviderNames :
          /\ Get(config.providers[p], "maxResults", 0) = 1
          /\ Len(SelectSeq(FilteredOf(p), LAMBDA m : m.similarity >= Threshold(config))) >= 2
          /\ Len(GroupOf(matches, p)) = 1

\* C2: the candidates of a provider are exactly the snippets, among its
\* maxResults most similar type-filtered ones (all of them without a cap), whose
\* similarity is at least clamp(similarityThreshold, 0, 100) / 100.
C2_CapThenThreshold ==
    Selected =>
        \A p \in ProviderNames :
            LET F == FilteredOf(p)
                C == CandidatesOf(p)
                n == Get(cfgAtSelect.providers[p], "maxResults", 0)
                t == Get(cfgAtSelect.global, "similarityThreshold", 0)
                th == (IF t < 0 THEN 0 ELSE IF t > 100 THEN 100 ELSE t) * 10000
                better(m) == Cardinality({k \in DOMAIN F : F[k].similarity > m.similarity})
                others(m) == Cardinality({k \in DOMAIN F :
                                F[k].id # m.id /\ F[k].similarity >= m.similarity})
            IN /\ Range(C) \subseteq Range(F)
               /\ Cardinality(IdsOf(C)) = Len(C)
               /\ \A k \in DOMAIN C : C[k].similarity >= th
               /\ n > 0 => Len(C) <= n /\ \A k \in DOMAIN C : better(C[k]) < n
               /\ \A k \in DOMAIN F :
                    (F[k].similarity >= th /\ F[k].id \notin IdsOf(C)) =>
                        n > 0 /\ others(F[k]) >= n

\* maxResults = 1, two snippets above the threshold, exactly one candidate; and
\* a snippet above the threshold is left out
C2_Witness ==
    /\ Selected
    /\ \E p \in ProviderNames :
          /\ Get(cfgAtSelect.providers[p], "maxResults", 0) = 1
          /\ Get(cfgAtSelect.global, "similarityThreshold", 0) = 85
          /\ Len(SelectSeq(FilteredOf(p), LAMBDA m : m.similarity >= 850000)) = 2
          /\ Len(CandidatesOf(p)) = 1

\* C3: when the request has answered, a candidate whose getFullMetadata call
\* threw is not in matches, every candidate was fetched once, and every
\* candidate whose call returned a record is in matches, on the pooled and on
\* the sequential path.
C3_FailureIsolated ==
    pc = "responded" =>
        \A g \in DOMAIN groups :
            groups[g].kind \in {"pool", "seq"} =>
                LET grp == groups[g]
                    got == IdsOf(GroupOf(Organic(matches), grp.provider))
                IN \A k \in DOMAIN grp.items :
                      /\ grp.calls[k] = 1
                      /\ k \in grp.thrown => grp.items[k].id \notin got
                      /\ grp.results[k].st = "val" => grp.items[k].id \in got

\* a response where, on each path, one candidate threw and a sibling is returned
C3_Witness ==
    /\ pc = "responded"
    /\ \E g \in DOMAIN groups :
          /\ groups[g].kind = "seq"
          /\ \E j, k \in DOMAIN groups[g].items :
                /\ j \in groups[g].thrown
                /\ groups[g].results[k].st = "val"
                /\ groups[g].items[k].id \in IdsOf(GroupOf(matches, groups[g].provider))

C3_WitnessPooled ==
    /\ pc = "responded"
    /\ \E g \in DOMAIN groups :
          /\ groups[g].kind = "pool"
          /\ \E j, k \in DOMAIN groups[g].items :
                /\ j \in groups[g].thrown
                /\ groups[g].results[k].st = "val"
                /\ groups[g].items[k].id \in IdsOf(GroupOf(matches, groups[g].provider))

\* C7: a response holds a merged record only if mergeBestResults is on and at
\* least two enriched results are within EPS of the best similarity; it holds at
\* most one, at the head, and the organic results follow in ranked order.
C7_MergeOnlyOnTie ==
    pc = "responded" =>
        LET mergedAt == {k \in DOMAIN matches : matches[k]._provider = "merged"}
            org == Organic(matches)
            sims == [k \in DOMAIN fullResults |-> fullResults[k].similarity]
            tied == {k \in DOMAIN fullResults : SeqMax(sims) - sims[k] <= EPS}
        IN /\ mergedAt \subseteq {1}
           /\ mergedAt # {} =>
                 /\ "mergeBestResults" \in DOMAIN config.global
                 /\ config.global.mergeBestResults
                 /\ Cardinality(tied) >= 2
           /\ Len(org) = Len(fullResults)
           /\ \A k \in DOMAIN fullResults :
                 \E j \in DOMAIN org : org[j].id = fullResults[k].id
                                        /\ org[j]._provider = fullResults[k]._provider
           /\ \A j \in 1..(Len(org) - 1) : ~RankBefore(org[j + 1], org[j])

\* a response headed by a merged record followed by two tied organic results
C7_Witness ==
    /\ pc = "responded"
    /\ Len(matches) >= 3
    /\ matches[1]._provider = "merged"
    /\ matches[2].similarity = matches[3].similarity

\* merge enabled, a unique best result and a runner-up: nothing is merged
C7_WitnessUnique ==
    /\ pc = "responded"
    /\ MergeEnabled(config)
    /\ Len(matches) >= 2
    /\ matches[1]._provider # "merged"
    /\ matches[1].similarity > matches[2].similarity


----------------------------------------------------------------------------
(* Enrichment of one larger candidate set: the request is taken up at the join
   of the searches, with up to MaxPoolItems snippets of the pooled provider and
   at most one of the sequential provider, all of them above the threshold *)

\* most candidates of the pooled provider
MaxPoolItems == 6

PoolConcurrencies == {1, 2}

PoolConfigs ==
    {[global |-> [similarityThreshold |-> 0],
      providers |-> [audioteka |-> [enabled |-> TRUE, priority |-> 10] @@ cc,
                     lubimyczytac |-> [enabled |-> TRUE, priority |-> 20]]] :
        cc \in Optional("concurrency", PoolConcurrencies)}

PoolSnippet(p, j) ==
    [id |-> Ids[j]] @@
    (IF p = "audioteka"
     THEN [title |-> "dune", authors |-> <<"bert">>, source |-> AudiotekaSource]
     ELSE [title |-> "dune", authors |-> <<"bert">>, type |-> "audiobook"])

PoolSearches(n, m) ==
    <<[provider |-> "audioteka", matches |-> [j \in 1..n |-> PoolSnippet("audioteka", j)]],
      [provider |-> "lubimyczytac", matches |-> [j \in 1..m |-> PoolSnippet("lubimyczytac", j)]]>>

PoolOutcomes == {"full", "throw"}

InitPool ==
    /\ config \in PoolConfigs
    /\ providers = ReloadProviders(config)
    /\ pc = "searched"
    /\ reqAuthor = TRUE
    /\ reqQuery = "text"
    /\ \E n \in 0..MaxPoolItems, m \in 0..1 : all = PoolSearches(n, m)
    /\ groups = <<>>
    /\ fullResults = <<>>
    /\ matches = <<>>
    /\ cfgAtStart = config
    /\ regAtStart = providers
    /\ cfgAtSelect = config
    /\ http = <<>>

\* some getFullMetadata call in flight settles
PoolFetch ==
    \/ \E g \in DOMAIN groups : \E o \in PoolOutcomes :
          \E w \in 1..MaxPoolItems + 1 : FetchSettle(g, w, o)
    \/ \E g \in DOMAIN groups : \E o \in PoolOutcomes : SeqFetchSettle(g, o)

PoolNext ==
    \/ Select
    \/ PoolFetch
    \/ Respond

\* every getFullMetadata call in flight eventually settles
PoolSpec == InitPool /\ [][PoolNext]_vars /\ WF_vars(PoolFetch)

Settled(g) == Cardinality({k \in DOMAIN g.results : g.results[k] # Hole})

\* C4: the fetches in flight for one provider never exceed its configured
\* concurrency (5 when unset), and each provider's pool is as busy as its own
\* limit and its own remaining candidates allow, whatever the other providers'
\* fetches are doing.
C4_ConcurrencyBound ==
    \A g \in DOMAIN groups :
        groups[g].kind = "pool" =>
            LET c == Get(cfgAtSelect.providers[groups[g].provider], "concurrency", 0)
                limit == IF c > 0 THEN c ELSE 5
                left == Len(groups[g].items) - Settled(groups[g])
            IN /\ PoolInFlight(groups[g]) <= limit
               /\ PoolInFlight(groups[g]) = Min2(limit, left)

\* six candidates and no configured concurrency: five fetches in flight, one
\* candidate waiting, while the other provider's fetch is in flight too
C4_Witness ==
    /\ pc = "enriching"
    /\ \E g, h \in DOMAIN groups :
          /\ groups[g].kind = "pool"
          /\ ~Has(config.providers[groups[g].provider], "concurrency")
          /\ Len(groups[g].items) >= 6
          /\ PoolInFlight(groups[g]) = 5
          /\ groups[h].kind = "seq"
          /\ GroupInFlight(groups[h]) = 1

C5_Safe ==
    \A g \in DOMAIN groups :
        groups[g].kind = "pool" =>
            LET pool == groups[g]
                n == Len(pool.items)
                busy == {w \in DOMAIN pool.workers : pool.workers[w] # 0}
            IN /\ \A v, w \in busy : v # w => pool.workers[v] # pool.workers[w]
               /\ \A w \in busy : pool.workers[w] \in 1..n /\ pool.results[pool.workers[w]] = Hole
               /\ \A k \in 1..n :
                     /\ pool.calls[k] <= 1
                     /\ pool.results[k] # Hole => pool.calls[k] = 1
                     /\ (pool.calls[k] = 1 /\ pool.results[k] = Hole) =>
                            \E w \in busy : pool.workers[w] = k
                     /\ pool.results[k] \in
                            {Hole, NullSlot, ValSlot(FullMetadata(pool.provider, pool.items[k]))}
                     /\ k \in pool.thrown <=> pool.results[k] = NullSlot
               /\ PoolResolved(pool) => \A k \in 1..n : pool.results[k] # Hole

C5_Resolved == \A g \in DOMAIN groups : groups[g].kind = "pool" => PoolResolved(groups[g])

\* C5: in mapWithConcurrency no two workers hold the same index, the iterator
\* runs at most once per item and exactly once for every processed item,
\* results[k] is the outcome of items[k] (null if it threw), the pool resolves
\* only when every item is processed, and, every call settling, it resolves.
C5_PoolCorrect == []C5_Safe /\ (Selected ~> C5_Resolved)

\* a pool of more items than workers has resolved after a throw and a success
C5_Witness ==
    /\ pc = "responded"
    /\ \E g \in DOMAIN groups :
          /\ groups[g].kind = "pool"
          /\ Len(groups[g].items) > Len(groups[g].workers)
          /\ Len(groups[g].workers) >= 2
          /\ PoolResolved(groups[g])
          /\ groups[g].thrown # {}
          /\ \E k \in DOMAIN groups[g].results : groups[g].results[k].st = "val"


----------------------------------------------------------------------------
(* A search request with PUT /admin/config requests arriving while it is
   suspended *)

ReloadBase ==
    [global |-> [similarityThreshold |-> 85, mergeBestResults |-> TRUE],
     providers |-> [audioteka |-> [enabled |-> TRUE, priority |-> 10],
                    lubimyczytac |-> [enabled |-> TRUE, priority |-> 20]]]

\* the configurations an administrator saves: a provider disabled, a cap, a
\* lower threshold with merging off
ReloadConfigs ==
    {ReloadBase,
     [ReloadBase EXCEPT !.providers.lubimyczytac.enabled = FALSE],
     [ReloadBase EXCEPT !.providers.audioteka = @ @@ [maxResults |-> 1]],
     [ReloadBase EXCEPT !.global = [similarityThreshold |-> 0, mergeBestResults |-> FALSE]]}

\* app.put('/admin/config'): config = loadConfig(); reloadProviders(config).
\* The handler is synchronous, so it runs only while no other handler does:
\* "searched" and "enriched" are passed within one turn of the event loop.
PutAdminConfig(c) ==
    /\ pc \notin {"searched", "enriched"}
    /\ c # config
    /\ config' = c
    /\ providers' = ReloadProviders(c)
    /\ UNCHANGED <<http, pc, reqAuthor, reqQuery, all, groups, fullResults, matches,
                   cfgAtStart, regAtStart, cfgAtSelect>>

InitReload ==
    /\ config \in ReloadConfigs
    /\ providers = ReloadProviders(config)
    /\ pc = "idle"
    /\ reqAuthor = TRUE
    /\ reqQuery = "text"
    /\ all = <<>>
    /\ groups = <<>>
    /\ fullResults = <<>>
    /\ matches = <<>>
    /\ cfgAtStart = config
    /\ regAtStart = providers
    /\ cfgAtSelect = config
    /\ http = <<>>

NextReload ==
    \/ Next
    \/ \E c \in ReloadConfigs : PutAdminConfig(c)

SpecReload == InitReload /\ [][NextReload]_vars

GroupHeads(gs) == [g \in DOMAIN gs |-> <<gs[g].provider, gs[g].kind, Get(gs[g], "items", <<>>)>>]

\* C6: a request runs against the configuration and registry in force when it
\* started: the candidates handed to enrichment, the provider instances that
\* enrich them and the response are those the starting configuration yields,
\* and no candidate is dropped because its provider left the registry.
C6_ConfigSnapshot ==
    /\ Selected =>
          /\ GroupHeads(groups) =
                GroupHeads(StartGroups(cfgAtStart, regAtStart,
                                       Candidates(cfgAtStart, reqAuthor, all)))
          /\ \A g \in DOMAIN groups : groups[g].kind # "gone"
    /\ pc = "responded" => matches = ResponseMatches(cfgAtStart, fullResults)

\* the part of C6 about the registry alone
C6_NoCandidateDropped ==
    Selected => \A g \in DOMAIN groups : groups[g].kind # "gone"


----------------------------------------------------------------------------
(* The merge block on its own: the request is taken up at the join of the
   enrichment with two enriched results, one per provider. The backbone reads
   the same fields of every provider's records, so the records range over what
   a provider plugin may return: narrator, cover and identifiers present or
   not, an ISBN on either side, titles that differ only in case (they score
   the same, the titles being lower-cased before comparison). *)

MergePreferenceSets ==
    {EmptyObj, "cover" :> "<auto>"} \cup
    {f :> p : f \in {"title", "narrator", "cover", "isbn", "identifiers", "genres"},
              p \in ProviderNames}

MergePriorities == {<<10, 5>>, <<5, 10>>}

MergeConfigs ==
    {[global |-> [similarityThreshold |-> 0, mergeBestResults |-> TRUE] @@ mp,
      providers |-> [audioteka |-> [enabled |-> TRUE, priority |-> pr[1]],
                     lubimyczytac |-> [enabled |-> TRUE, priority |-> pr[2]]]] :
        mp \in Optional("mergePreferences", MergePreferenceSets \ {EmptyObj}),
        pr \in MergePriorities}

\* similarities of the two results: equal, within EPS either way, apart
MergeSimilarities ==
    {<<950000, 950000>>, <<950000, 950001>>, <<950001, 950000>>, <<950000, 950002>>}

MergeRecordsA ==
    {[id |-> "1", title |-> "dune", authors |-> <<"bert">>, type |-> "audiobook",
      source |-> AudiotekaSource, languages |-> <<"polish">>, genres |-> <<"SciFi">>]
        @@ n @@ c @@ i :
        n \in Optional("narrator", {"Ann Reader"}),
        c \in Optional("cover", {"at.jpg"}),
        i \in Optional("identifiers", {[audioteka |-> "1"], [audioteka |-> "1", isbn |-> "111"]})}

MergeRecordsB ==
    {[id |-> "2", authors |-> <<"bert">>, type |-> "book", description |-> "book desc",
      languages |-> <<"polish">>, genres |-> <<" scifi ">>, tags |-> <<"classic">>]
        @@ t @@ n @@ c @@ i :
        t \in {[title |-> "dune"], [title |-> "Dune"]},
        n \in Optional("narrator", {"Bob Reader"}),
        c \in Optional("cover", {"lc.jpg"}),
        i \in Optional("identifiers", {[isbn |-> "222", lubimyczytac |-> "2"]})}

\* the ids of two hits of one search: the last segment of each hit's URL
\* (bookUrl.split('/').pop()), which is the title slug on lubimyczytac, so two
\* editions of one title share it, and '' when the URL ends in a slash
MergeTieIds == {<<"dune", "dune">>, <<"dune", "diuna">>, <<"", "">>}

\* two hits of the lubimyczytac search (its book list, then its audiobook list)
MergeTiePairs ==
    {<<[id |-> ids[1], title |-> "dune", authors |-> <<"bert">>, type |-> "book",
        cover |-> "lc1.jpg", identifiers |-> [isbn |-> "222", lubimyczytac |-> ids[1]]],
       [id |-> ids[2], title |-> "dune", authors |-> <<"bert">>, type |-> ty,
        description |-> "book desc", identifiers |-> [isbn |-> "", lubimyczytac |-> ids[2]]]>> :
        ids \in MergeTieIds, ty \in {"book", "audiobook"}}

\* a provider's record as it leaves enrichment: tagged and scored
Enrich(cfg, p, rec, sim) == [similarity |-> sim] @@ Tagged(cfg, p, rec)

\* what an enriched record is when the provider's getFullMetadata replaces
\* `authors` by a string, with or without an `author` string beside it
Malformed(rec) ==
    {[authors |-> <<"bert">>, authorsNotArray |-> TRUE] @@ au @@ rec :
        au \in Optional("author", {"bert"})}

\* two enriched records, one of them with a string for `authors`
MalformedPairs(cfg) ==
    LET a == Tagged(cfg, "audioteka",
                    [id |-> "1", title |-> "dune", authors |-> <<"bert">>,
                     type |-> "audiobook", narrator |-> "Ann Reader"])
        bs == {Tagged(cfg, "lubimyczytac",
                      [id |-> "2", title |-> t, authors |-> <<"bert">>, type |-> "book",
                       description |-> "book desc"]) : t \in {"dune", "Dune"}}
    IN {<<ma, b>> : ma \in Malformed(a), b \in bs}
       \cup {<<a, mb>> : mb \in UNION {Malformed(b) : b \in bs}}

InitMerge ==
    /\ config \in MergeConfigs
    /\ providers = ReloadProviders(config)
    /\ pc = "enriched"
    /\ reqAuthor = TRUE
    /\ reqQuery = "text"
    /\ all = <<>>
    /\ groups = <<>>
    /\ \/ \E a \in MergeRecordsA, b \in MergeRecordsB, sim \in MergeSimilarities :
             fullResults = <<Enrich(config, "audioteka", a, sim[1]),
                             Enrich(config, "lubimyczytac", b, sim[2])>>
       \/ \E t \in MergeTiePairs, sim \in MergeSimilarities :
             fullResults = <<Enrich(config, "lubimyczytac", t[1], sim[1]),
                             Enrich(config, "lubimyczytac", t[2], sim[2])>>
       \/ \E m \in MalformedPairs(config), sim \in MergeSimilarities :
             fullResults = <<[similarity |-> sim[1]] @@ m[1], [similarity |-> sim[2]] @@ m[2]>>
    /\ matches = <<>>
    /\ cfgAtStart = config
    /\ regAtStart = providers
    /\ cfgAtSelect = config
    /\ http = <<>>

NextMerge == Respond

SpecMerge == InitMerge /\ [][NextMerge]_vars

----------------------------------------------------------------------------
(* The merge of the list, series and identifier fields: two enriched results
   tie at the top, one per provider. lubimyczytac's getFullMetadata returns the
   series as a string beside a seriesIndex; an array of names is the other
   shape the merge block reads. *)

InitFields ==
    LET preferences == {f :> p : f \in {"genres", "tags", "series", "identifiers", "isbn"},
                                p \in ProviderNames}
        configs ==
            {[global |-> [similarityThreshold |-> 0, mergeBestResults |-> TRUE] @@ mp,
              providers |-> [audioteka |-> [enabled |-> TRUE, priority |-> pr[1]],
                             lubimyczytac |-> [enabled |-> TRUE, priority |-> pr[2]]]] :
                mp \in Optional("mergePreferences", preferences), pr \in MergePriorities}
        recordsA ==
            {[id |-> "1", title |-> "dune", authors |-> <<"bert">>, type |-> "audiobook",
              narrator |-> "Ann Reader", genres |-> <<"SciFi">>] @@ s @@ x @@ i :
                s \in Optional("series", {[str |-> "saga"], [arr |-> <<"saga">>],
                                          [arr |-> <<"", "saga">>]}),
                x \in Optional("seriesIndex", {1}),
                i \in Optional("identifiers", {[audioteka |-> "1", isbn |-> ""],
                                               [audioteka |-> "1", isbn |-> "111", asin |-> "A1"]})}
        recordsB ==
            {[id |-> "2", title |-> "dune", authors |-> <<"bert">>, type |-> "book",
              description |-> "book desc", genres |-> <<" scifi ">>,
              tags |-> <<"classic">>] @@ s @@ x @@ i :
                s \in Optional("series", {[str |-> "cycle"], [arr |-> <<"cycle">>]}),
                x \in Optional("seriesIndex", {2}),
                i \in Optional("identifiers",
                               {[isbn |-> "222", asin |-> "B2", lubimyczytac |-> "2"]})}
    IN
    /\ config \in configs
    /\ providers = ReloadProviders(config)
    /\ pc = "enriched"
    /\ reqAuthor = TRUE
    /\ reqQuery = "text"
    /\ all = <<>>
    /\ groups = <<>>
    /\ \E a \in recordsA, b \in recordsB :
          fullResults = <<Enrich(config, "audioteka", a, 950000),
                          Enrich(config, "lubimyczytac", b, 950000)>>
    /\ matches = <<>>
    /\ cfgAtStart = config
    /\ regAtStart = providers
    /\ cfgAtSelect = config
    /\ http = <<>>

SpecFields == InitFields /\ [][NextMerge]_vars


----------------------------------------------------------------------------
(* Properties of the merge *)

\* the tie group of a response, in ranked order and in resolution order
TieGroup == TopGroup(Rank(fullResults))

Resolution == SortedGroup(TieGroup)

HasMerged == Len(matches) > 0 /\ matches[1]._provider = "merged"

\* item has a non-empty value for one of the fields the redundancy check reads
NonEmpty(item, f) ==
    CASE f \in ListFields -> Has(item, f) /\ Len(item[f]) > 0
      [] f = "identifiers" -> Has(item, f) /\ DOMAIN item[f] # {}
      [] OTHER -> Has(item, f) /\ item[f] # ""

\* the top organic result has every field the tie group could contribute
TopHasEveryField ==
    \A f \in MergedFields :
        (\E k \in DOMAIN TieGroup : NonEmpty(TieGroup[k], f)) => NonEmpty(Rank(fullResults)[1], f)

\* C8: whenever the top organic result has a non-empty value for every field
\* the tie group could contribute, the response is not headed by a merged record.
C8_RedundancySuppressed ==
    (pc = "responded" /\ Len(fullResults) > 0 /\ TopHasEveryField) => ~HasMerged

\* the same with the condition of the merge rules added: every member of the
\* tie group has the title and the ordered authors of the top result
C8_SuppressedSameTitle ==
    (/\ pc = "responded" /\ Len(fullResults) > 0 /\ TopHasEveryField
     /\ \A k \in DOMAIN TieGroup :
           /\ TieGroup[k].title = TieGroup[1].title
           /\ TieGroup[k].authors = TieGroup[1].authors)
    => ~HasMerged

SingleValuedFields ==
    {"title", "subtitle", "narrator", "description", "cover", "publisher", "publishedYear",
     "url", "id", "rating", "type", "duration", "language", "isbn", "asin"}

\* the value a tie-group member holds for a single-valued field, "" when it has none
MemberValue(i, f) ==
    CASE f \in {"isbn", "asin"} -> IF Has(i, "identifiers") THEN Get(i.identifiers, f, "") ELSE ""
      [] f = "language" -> IF Has(i, "languages") /\ Len(i.languages) > 0
                           THEN i.languages[1] ELSE ""
      [] f = "publishedYear" -> IF Has(i, "publishedDate") THEN YearOf(i.publishedDate) ELSE ""
      [] f \in NumFields -> IF Get(i, f, 0) # 0 THEN i[f] ELSE ""
      [] OTHER -> Get(i, f, "")

\* the member whose value preferred-provider-first resolution uses: its index
\* in resolution order, 0 when no member has a value
UsedMember(prefs, sg, f) ==
    LET P == Get(prefs, f, "")
        preferred == {k \in DOMAIN sg : sg[k]._provider = P /\ MemberValue(sg[k], f) # ""}
        any == {k \in DOMAIN sg : MemberValue(sg[k], f) # ""}
        first(S) == CHOOSE k \in S : \A j \in S : k <= j
    IN IF P # "" /\ preferred # {} THEN first(preferred)
       ELSE IF any # {} THEN first(any) ELSE 0

\* C9: every single-valued field of the merged record holds the value of the
\* preferred provider's member when mergePreferences names one that has a
\* value, and otherwise the first non-empty value in resolution order.
C9_PreferredProviderFirst ==
    (pc = "responded" /\ HasMerged) =>
        \A f \in SingleValuedFields :
            LET u == UsedMember(MergePrefs(config), Resolution, f)
            IN u # 0 => /\ Has(matches[1], f)
                        /\ matches[1][f] = MemberValue(Resolution[u], f)

\* the same for the fields other than isbn and asin
C9_DirectFields ==
    (pc = "responded" /\ HasMerged) =>
        \A f \in SingleValuedFields \ {"isbn", "asin"} :
            LET u == UsedMember(MergePrefs(config), Resolution, f)
            IN u # 0 => /\ Has(matches[1], f)
                        /\ matches[1][f] = MemberValue(Resolution[u], f)

\* A (priority 10, no cover) and B (priority 5, with a cover), cover preferred
\* from B: a merged record is returned
C9_CoverExample ==
    /\ pc = "responded" /\ HasMerged
    /\ Len(Resolution) = 2
    /\ PriorityNum(Resolution[1]) = 10 /\ ~Has(Resolution[1], "cover")
    /\ PriorityNum(Resolution[2]) = 5 /\ Has(Resolution[2], "cover")
    /\ Get(MergePrefs(config), "cover", "") = Resolution[2]._provider

\* C10: for every single-valued field to which the merge gave a value,
\* _mergedFieldSources maps the field to the provider of the member used.
C10_ProvenanceRecorded ==
    (pc = "responded" /\ HasMerged) =>
        \A f \in SingleValuedFields :
            LET u == UsedMember(MergePrefs(config), Resolution, f)
            IN u # 0 => /\ Has(matches[1]._mergedFieldSources, f)
                        /\ matches[1]._mergedFieldSources[f] = Resolution[u]._provider

\* the same for the fields of singleFields alone
C10_SingleFieldsRecorded ==
    (pc = "responded" /\ HasMerged) =>
        \A f \in SingleValuedFields \cap Range(SingleFields) :
            LET u == UsedMember(MergePrefs(config), Resolution, f)
            IN u # 0 => /\ Has(matches[1]._mergedFieldSources, f)
                        /\ matches[1]._mergedFieldSources[f] = Resolution[u]._provider

\* A lacks the narrator, B supplies it, no preference: a merged record is returned
C10_NarratorExample ==
    /\ pc = "responded" /\ HasMerged
    /\ Len(Resolution) = 2
    /\ ~Has(Resolution[1], "narrator") /\ Has(Resolution[2], "narrator")
    /\ ~Has(MergePrefs(config), "narrator")



----------------------------------------------------------------------------
(* The tie group recorded on the merged result *)

\* _mergedFrom has one entry per member of the tie group, in the group's order,
\* naming that member's provider
C11_OneEntryPerMember ==
    (pc = "responded" /\ HasMerged) =>
        LET mf == matches[1]._mergedFrom
        IN /\ Len(mf) = Len(TieGroup)
           /\ \A k \in DOMAIN mf : mf[k].provider = TieGroup[k]._provider

\* C11: a merged result's _mergedFrom has one entry per member of the tie group
\* and so holds at least two (provider, id) pairs, no two of them equal
C11_MergedFromDistinct ==
    (pc = "responded" /\ HasMerged) =>
        LET mf == matches[1]._mergedFrom
        IN /\ Len(mf) = Len(TieGroup)
           /\ Len(mf) >= 2
           /\ \A i, j \in DOMAIN mf : i # j => mf[i] # mf[j]

\* a merged result built from two results of the same provider
C11_SameProviderTie ==
    /\ pc = "responded" /\ HasMerged
    /\ Len(TieGroup) = 2
    /\ TieGroup[1]._provider = TieGroup[2]._provider


----------------------------------------------------------------------------
(* Ranking alone: the handler at the enrichment join, for every arrival order *)

\* most enriched results of one request
MaxRanked == 3

\* an enriched result as the comparator sees it: similarity, type or format,
\* and the provider priority it was tagged with (absent when a provider's
\* getFullMetadata builds a fresh record)
RankKinds ==
    {[_provider |-> "audioteka", similarity |-> sim, title |-> "dune",
      authors |-> <<"bert">>, type |-> ty] @@ pr :
        sim \in {900000, 950000}, ty \in {"book", "audiobook"},
        pr \in Optional("_providerPriority", {10})}
    \cup {[_provider |-> "audioteka", similarity |-> 950000, title |-> "dune",
            authors |-> <<"bert">>, format |-> "audiobook"],
           [_provider |-> "audioteka", similarity |-> 950000, title |-> "dune",
            authors |-> <<"bert">>, type |-> "book", _providerPriority |-> 0]}

\* nested.flat(): at most n enriched results, ids in arrival order
RankInputs(n) ==
    UNION {{[j \in 1..len |-> [id |-> Ids[j]] @@ ks[j]] : ks \in [1..len -> RankKinds]} :
           len \in 0..n}

RankConfig ==
    [global |-> [mergeBestResults |-> FALSE],
     providers |-> [audioteka |-> [enabled |-> TRUE, priority |-> 10],
                    lubimyczytac |-> [enabled |-> TRUE, priority |-> 20]]]

InitRank ==
    /\ config = RankConfig
    /\ providers = ReloadProviders(config)
    /\ pc = "enriched"
    /\ reqAuthor = TRUE
    /\ reqQuery = "text"
    /\ all = <<>>
    /\ groups = <<>>
    /\ fullResults \in RankInputs(MaxRanked)
    /\ matches = <<>>
    /\ cfgAtStart = config
    /\ regAtStart = providers
    /\ cfgAtSelect = config
    /\ http = <<>>

NextRank == Respond

SpecRank == InitRank /\ [][NextRank]_vars

\* the three keys of the ranking order
RankKeys(m) ==
    <<m.similarity,
      Get(m, "type", "") = "audiobook" \/ Get(m, "format", "") = "audiobook",
      IF Has(m, "_providerPriority") THEN m._providerPriority ELSE 0>>

IdSeq(ms) == [k \in DOMAIN ms |-> ms[k].id]

\* the same enriched results, arriving in the order pi
Permute(ms, pi) == [k \in DOMAIN ms |-> ms[pi[k]]]

\* C12 as stated: whatever order the enriched results arrive in, the ranking
\* step returns the same list
C12_OrderIndependent ==
    pc = "responded" =>
        \A pi \in Permutations(DOMAIN fullResults) :
            IdSeq(Rank(Permute(fullResults, pi))) = IdSeq(Organic(matches))

\* C12: whatever order the enriched results arrive in, the ranking step
\* returns the same sequence of keys, and the same result at every position
\* whose keys no other result shares
C12_OrderIndependentUpToTies ==
    pc = "responded" =>
        \A pi \in Permutations(DOMAIN fullResults) :
            LET out == Organic(matches)
                alt == Rank(Permute(fullResults, pi))
            IN /\ Len(alt) = Len(out)
               /\ \A k \in DOMAIN out :
                    /\ RankKeys(alt[k]) = RankKeys(out[k])
                    /\ alt[k].id # out[k].id =>
                          \E j \in DOMAIN out : j # k /\ RankKeys(out[j]) = RankKeys(out[k])

\* three results with pairwise different keys that did not arrive in rank order
C12_Witness ==
    /\ pc = "responded"
    /\ Len(fullResults) = 3
    /\ \A i, j \in DOMAIN fullResults :
           i # j => RankKeys(fullResults[i]) # RankKeys(fullResults[j])
    /\ IdSeq(matches) # IdSeq(fullResults)

\* the position at which a result arrived
ArrivalIndex(m) == CHOOSE k \in DOMAIN fullResults : fullResults[k].id = m.id

\* C13: every adjacent pair of the response is ordered by similarity
\* (descending), then audiobook before book, then provider priority
\* (descending, a missing priority counting as 0), and two results equal on
\* all three keys stay in arrival order
C13_RankOrder ==
    pc = "responded" =>
        /\ Len(matches) = Len(fullResults)
        /\ IdsOf(matches) = IdsOf(fullResults)
        /\ \A k \in 1..(Len(matches) - 1) :
              LET a == RankKeys(matches[k])
                  b == RankKeys(matches[k + 1])
              IN \/ a[1] > b[1]
                 \/ a[1] = b[1] /\ a[2] /\ ~b[2]
                 \/ a[1] = b[1] /\ a[2] = b[2] /\ a[3] > b[3]
                 \/ a = b /\ ArrivalIndex(matches[k]) < ArrivalIndex(matches[k + 1])

\* a response in which each key decides one adjacent pair
C13_Witness ==
    /\ pc = "responded"
    /\ Len(matches) = 3
    /\ RankKeys(matches[1])[1] = RankKeys(matches[2])[1]
    /\ RankKeys(matches[1])[2] /\ ~RankKeys(matches[2])[2]
    /\ RankKeys(matches[2])[1] = RankKeys(matches[3])[1]
    /\ RankKeys(matches[2])[2] = RankKeys(matches[3])[2]
    /\ RankKeys(matches[2])[3] > RankKeys(matches[3])[3]
    /\ ~Has(matches[3], "_providerPriority")
    /\ IdSeq(matches) # IdSeq(fullResults)

\* two results equal on all three keys, one tagged with priority 0 and one
\* without a priority, in arrival order behind a result that arrived last
C13_WitnessTie ==
    /\ pc = "responded"
    /\ Len(matches) = 3
    /\ RankKeys(matches[2]) = RankKeys(matches[3])
    /\ Has(matches[2], "_providerPriority") /\ ~Has(matches[3], "_providerPriority")
    /\ ArrivalIndex(matches[1]) = 3


----------------------------------------------------------------------------
(* Failure of a provider's search *)

\* C14: a provider whose searchBooks call threw has an entry with `error` in
\* the providers diagnostics and contributes no candidate and no result; the
\* candidates of every other provider are those its own matches select, as if
\* no search had failed; when every search failed the response has no matches
\* and one error entry per provider of the registry
C14_SearchFailureIsolated ==
    Selected =>
        /\ Len(all) = Len(regAtStart)
        /\ \A i \in DOMAIN all :
              /\ all[i].provider = regAtStart[i]
              /\ Has(all[i], "error") # Has(all[i], "matches")
              /\ Has(all[i], "error") =>
                    /\ CandidatesOf(all[i].provider) = <<>>
                    /\ GroupOf(fullResults, all[i].provider) = <<>>
                    /\ GroupOf(Organic(matches), all[i].provider) = <<>>
              /\ Has(all[i], "matches") =>
                    CandidatesOf(all[i].provider)
                        = Candidates(cfgAtSelect, reqAuthor, <<all[i]>>)
        /\ (pc = "responded" /\ \A i \in DOMAIN all : Has(all[i], "error")) =>
              matches = <<>>

\* a response after one provider's search threw, with a result of the other
C14_Witness ==
    /\ pc = "responded"
    /\ \E i, j \in DOMAIN all :
          /\ Has(all[i], "error")
          /\ Has(all[j], "matches")
          /\ GroupOf(matches, all[j].provider) # <<>>

\* a response after every provider's search threw
C14_WitnessAllFailed ==
    /\ pc = "responded"
    /\ Len(all) = 2
    /\ \A i \in DOMAIN all : Has(all[i], "error")
    /\ matches = <<>>


----------------------------------------------------------------------------
(* A throw inside the merge block *)

\* the merge block of this request threw and was caught
MergeThrew == pc \in {"responded", "failed"} /\ MergeThrows(config, Rank(fullResults))

\* when the merge threw and the request answered, matches is the ranked
\* sequence of the enriched results, normalised, with no merged record
C15_RankedUntouched ==
    (MergeThrew /\ pc = "responded") =>
        /\ matches = Finalize(Rank(fullResults))
        /\ IdSeq(matches) = IdSeq(Rank(fullResults))
        /\ \A k \in DOMAIN matches : matches[k]._provider # "merged"

\* C15: when a step of the merge throws, the request still succeeds and its
\* matches is exactly the unmerged ranked sequence
C15_MergeBestEffort ==
    MergeThrew =>
        /\ pc = "responded"
        /\ IdSeq(matches) = IdSeq(Rank(fullResults))
        /\ \A k \in DOMAIN matches : matches[k]._provider # "merged"

\* the merge threw and the request answered with both results
C15_CaughtAndAnswered ==
    /\ MergeThrew
    /\ pc = "responded"
    /\ Len(matches) = 2


----------------------------------------------------------------------------
(* Every request answers *)

\* one threshold, either category of results disabled or none, Audioteka's
\* pool with the default limit or one fetch at a time, every shape of the
\* query parameter
RequestConfigs ==
    {[global |-> [similarityThreshold |-> 85, mergeBestResults |-> m] @@ allow,
      providers |-> [audioteka |-> [enabled |-> TRUE, priority |-> 10] @@ cc,
                     lubimyczytac |-> [enabled |-> TRUE, priority |-> 20]]] :
        m \in BOOLEAN,
        allow \in {EmptyObj, [allowBooks |-> FALSE], [allowAudiobooks |-> FALSE]},
        cc \in Optional("concurrency", {1})}

InitRequest ==
    /\ config \in RequestConfigs
    /\ providers = ReloadProviders(config)
    /\ pc = "idle"
    /\ reqAuthor = TRUE
    /\ reqQuery \in QueryShapes
    /\ all = <<>>
    /\ groups = <<>>
    /\ fullResults = <<>>
    /\ matches = <<>>
    /\ cfgAtStart = config
    /\ regAtStart = providers
    /\ cfgAtSelect = config
    /\ http = <<>>

NextRequest == Next

SpecRequest == InitRequest /\ [][NextRequest]_vars

\* C19: a /search request that carries a query is answered with a ranked list
\* of matches, never with an error and never not at all, whichever searches,
\* fetches or merge steps failed: the handler rejects only a request without a
\* query, never throws out of its own code, and what it sends is the ranked
\* sequence of the enriched results behind at most one merged record
C19_AnswersWithMatches ==
    /\ pc = "rejected" => reqQuery = "none"
    /\ reqQuery # "none" => pc # "failed"
    /\ pc = "responded" => Organic(matches) = Finalize(Rank(fullResults))

\* a request whose query is one string is never left unanswered by a throw
C19_TextQueryAnswers ==
    /\ reqQuery = "text" => pc \notin {"failed", "rejected"}
    /\ pc = "responded" => Organic(matches) = Finalize(Rank(fullResults))

\* a response to a text query after a search and a fetch both threw
C19_AnsweredDespiteFailures ==
    /\ pc = "responded"
    /\ reqQuery = "text"
    /\ \E i \in DOMAIN all : Has(all[i], "error")
    /\ \E g \in DOMAIN groups : groups[g].kind \in {"pool", "seq"} /\ groups[g].thrown # {}


----------------------------------------------------------------------------
(* Detail-page fetches *)

\* how many getFullMetadata calls the provider's own searchBooks made for each
\* match it returns: AudiotekaProvider maps getFullMetadata over every match
\* before returning (mapWithConcurrency), LubimyCzytacProvider over its best
\* twenty (Promise.all); neither keeps the fetched page for a later call
SearchDetailFetches(p, ms) == [k \in DOMAIN ms |-> 1]

\* how many getFullMetadata calls the backbone made for snippet m of provider p
BackboneFetches(p, m) ==
    IF \E g \in DOMAIN groups : groups[g].provider = p /\ groups[g].kind \in {"pool", "seq"}
    THEN LET grp == groups[CHOOSE g \in DOMAIN groups : groups[g].provider = p]
             ks == {k \in DOMAIN grp.items : grp.items[k].id = m.id}
         IN IF ks = {} THEN 0 ELSE grp.calls[CHOOSE k \in ks : TRUE]
    ELSE 0

\* the backbone calls getFullMetadata once for every candidate and never for
\* a snippet that is not a candidate
C16_BackboneFetchesOnce ==
    pc = "responded" =>
        \A i \in DOMAIN all :
            Has(all[i], "matches") =>
                \A k \in DOMAIN all[i].matches :
                    BackboneFetches(all[i].provider, all[i].matches[k])
                        = IF all[i].matches[k].id \in IdsOf(CandidatesOf(all[i].provider))
                          THEN 1 ELSE 0

\* C16: searchBooks performs no detail fetch, the backbone calls
\* getFullMetadata exactly once for every candidate and never for another
\* snippet, so no snippet's detail page is fetched more than once
C16_DetailFetchedOnce ==
    \A i \in DOMAIN all :
        Has(all[i], "matches") =>
            \A k \in DOMAIN all[i].matches :
                LET p == all[i].provider
                    m == all[i].matches[k]
                    inSearch == SearchDetailFetches(p, all[i].matches)[k]
                IN /\ inSearch = 0
                   /\ inSearch + BackboneFetches(p, m) <= 1
                   /\ pc = "responded" =>
                         BackboneFetches(p, m)
                             = IF m.id \in IdsOf(CandidatesOf(p)) THEN 1 ELSE 0

\* a response with a candidate that was fetched and a snippet that was not
C16_FetchedAndSkipped ==
    /\ pc = "responded"
    /\ \E i \in DOMAIN all :
          /\ Has(all[i], "matches")
          /\ \E j, k \in DOMAIN all[i].matches :
                /\ BackboneFetches(all[i].provider, all[i].matches[j]) = 1
                /\ BackboneFetches(all[i].provider, all[i].matches[k]) = 0


----------------------------------------------------------------------------
(* The join of the provider searches *)

SearchPending == \E i \in DOMAIN all : Has(all[i], "pending")

\* the backbone has started a getFullMetadata call
BackboneFetchStarted ==
    \E g \in DOMAIN groups :
        /\ groups[g].kind \in {"pool", "seq"}
        /\ \E k \in DOMAIN groups[g].calls : groups[g].calls[k] > 0

\* a searchBooks call that has returned made a getFullMetadata call
SearchFetchStarted ==
    \E i \in DOMAIN all :
        /\ Has(all[i], "matches")
        /\ \E k \in DOMAIN all[i].matches :
              SearchDetailFetches(all[i].provider, all[i].matches)[k] > 0

\* while a search task is pending the backbone has selected nothing and has
\* started no fetch, and selection saw every task settled
C20_BackboneJoins ==
    /\ SearchPending => pc = "searching" /\ groups = <<>> /\ ~BackboneFetchStarted
    /\ pc \in {"searched", "enriching", "enriched", "responded"} => ~SearchPending

\* C20: selection and every detail fetch start only after the search calls of
\* all providers have settled: while some provider's search call is pending
\* no detail fetch of any provider has been started
C20_NoFetchBeforeJoin ==
    SearchPending =>
        /\ groups = <<>>
        /\ ~BackboneFetchStarted
        /\ ~SearchFetchStarted

\* the backbone has fetches under way, every search having settled, one of
\* them with an error
C20_FetchingAfterJoin ==
    /\ pc = "enriching"
    /\ BackboneFetchStarted
    /\ \E i \in DOMAIN all : Has(all[i], "error")


----------------------------------------------------------------------------
(* Scoring alone: the selection block for every shape of snippet *)

\* most snippets scored in one request
MaxScored == 2

\* the values config.global.titleWeight can hold: the configuration schema
\* (config/schema.json, read by config.js) admits 0 to 100
TitleWeights == {0, 30, 100}

\* the author data a snippet can carry
AuthorShapes ==
    {[authors |-> <<"bert">>], [authors |-> <<"be", "bertie">>], [authors |-> <<"zed">>],
     [authors |-> <<>>], [authors |-> <<"">>],
     [author |-> "bert, ann"],
     [authors |-> <<"bert">>, authorsNotArray |-> TRUE],
     EmptyObj}

ScoreKinds ==
    {[title |-> t] @@ a : t \in {"dune", "dun"}, a \in AuthorShapes}
    \cup {[authors |-> <<"bert">>]}

ScoreSnippets(n) ==
    UNION {{[j \in 1..len |-> [id |-> Ids[j]] @@ ks[j]] : ks \in [1..len -> ScoreKinds]} :
           len \in 0..n}

ScoreConfigs ==
    {[global |-> [similarityThreshold |-> 0] @@ tw,
      providers |-> [audioteka |-> [enabled |-> TRUE, priority |-> 10],
                     lubimyczytac |-> [enabled |-> TRUE, priority |-> 20]]] :
        tw \in Optional("titleWeight", TitleWeights)}

\* the handler at the join of the searches, lubimyczytac alone having matches
InitScore ==
    /\ config \in ScoreConfigs
    /\ providers = ReloadProviders(config)
    /\ pc = "searched"
    /\ reqAuthor \in BOOLEAN
    /\ reqQuery = "text"
    /\ \E ms \in ScoreSnippets(MaxScored) :
          all = <<[provider |-> "audioteka", matches |-> <<>>],
                  [provider |-> "lubimyczytac", matches |-> ms]>>
    /\ groups = <<>>
    /\ fullResults = <<>>
    /\ matches = <<>>
    /\ cfgAtStart = config
    /\ regAtStart = providers
    /\ cfgAtSelect = config
    /\ http = <<>>

NextScore == Select

SpecScore == InitScore /\ [][NextScore]_vars

\* the scored snippets that the selection block handed on
ScoredCandidates == CandidatesOf("lubimyczytac")

\* C17: every similarity the scoring step produces lies between 0 and 1
\* (0 and 1000000 in units of 1e-6), for every titleWeight in force
C17_SimilarityInRange ==
    /\ pc # "failed"
    /\ \A k \in DOMAIN ScoredCandidates :
          /\ ScoredCandidates[k].similarity >= 0
          /\ ScoredCandidates[k].similarity <= 1000000

\* with titleWeight 0 a perfect title by an unrelated author scores 0, beside a
\* snippet that scores 1
C17_Witness ==
    /\ pc \in {"enriching", "enriched"}
    /\ reqAuthor
    /\ Get(config.global, "titleWeight", 60) = 0
    /\ \E j, k \in DOMAIN ScoredCandidates :
          /\ Get(ScoredCandidates[j], "title", "") = "dune"
          /\ ScoredCandidates[j].similarity = 0
          /\ ScoredCandidates[k].similarity = 1000000

\* C18: with a non-empty author and a snippet that has authors the score is
\* titleWeight * titleSimilarity + (1 - titleWeight) * the best author
\* similarity, titleWeight being global.titleWeight / 100 and 0.6 when unset;
\* otherwise it is titleSimilarity alone; every snippet is scored and nothing
\* is thrown
C18_ScoreFormula ==
    /\ pc # "failed"
    /\ pc \in {"enriching", "enriched"} =>
          /\ Len(ScoredCandidates) = Len(all[2].matches)
          /\ \A k \in DOMAIN ScoredCandidates :
                LET c == ScoredCandidates[k]
                    title == TitleSimPct(IF Has(c, "title") THEN c.title ELSE "")
                    pct == IF Has(config.global, "titleWeight")
                           THEN config.global.titleWeight ELSE 60
                    best == SeqMax([i \in DOMAIN c.authors |-> AuthorSimPct(c.authors[i])])
                IN /\ \E j \in DOMAIN all[2].matches : all[2].matches[j].id = c.id
                   /\ c.similarity = IF reqAuthor /\ Len(c.authors) > 0
                                     THEN (pct * title + (100 - pct) * best) * 100
                                     ELSE title * 10000

\* titleWeight 30: 'dun' by 'be' and 'bertie' scores 0.3 * 0.8 + 0.7 * 0.75,
\* beside a snippet without authors that scores its title alone
C18_Witness ==
    /\ pc \in {"enriching", "enriched"}
    /\ reqAuthor
    /\ Get(config.global, "titleWeight", 60) = 30
    /\ \E j, k \in DOMAIN ScoredCandidates :
          /\ Len(ScoredCandidates[j].authors) = 2
          /\ ScoredCandidates[j].similarity = 765000
          /\ ScoredCandidates[k].authors = <<>>
          /\ ScoredCandidates[k].similarity = 800000

\* the default weight: 'dun' by 'bert' scores 0.6 * 0.8 + 0.4 * 1
C18_WitnessDefault ==
    /\ pc \in {"enriching", "enriched"}
    /\ reqAuthor
    /\ ~Has(config.global, "titleWeight")
    /\ \E k \in DOMAIN ScoredCandidates : ScoredCandidates[k].similarity = 880000


----------------------------------------------------------------------------
(* List-valued fields of the merged record *)

\* the members of the tie group that have a non-empty list for field f
WithList(f) == {k \in DOMAIN TieGroup : Has(TieGroup[k], f) /\ Len(TieGroup[k][f]) > 0}

\* the members of the preferred provider among them
PreferredWithList(f) ==
    {k \in WithList(f) : TieGroup[k]._provider = Get(MergePrefs(config), f, "")}

\* the merged list is the preferred provider's list verbatim when that provider
\* has one, and else the union of the members' lists, normalised, without
\* duplicates
C21_ListValue ==
    (pc = "responded" /\ HasMerged) =>
        \A f \in {"genres", "tags"} :
            IF PreferredWithList(f) # {}
            THEN \E k \in PreferredWithList(f) : matches[1][f] = TieGroup[k][f]
            ELSE /\ Range(matches[1][f])
                      = {Normalize(TieGroup[k][f][j]) :
                            k \in WithList(f), j \in 1..1} \ {""}
                 /\ Cardinality(Range(matches[1][f])) = Len(matches[1][f])

\* C21: the merged genres and tags are the preferred provider's list verbatim
\* when that provider has a non-empty list in the tie group; in every other
\* case they are the normalised union without duplicates, and the recorded
\* source is the set of providers that contributed a non-empty list (the code
\* records a provider name, not a set, exactly when a preference is set)
C21_ListFields ==
    (pc = "responded" /\ HasMerged) =>
        \A f \in {"genres", "tags"} :
            IF PreferredWithList(f) # {}
            THEN \E k \in PreferredWithList(f) : matches[1][f] = TieGroup[k][f]
            ELSE /\ Range(matches[1][f])
                      = {Normalize(TieGroup[k][f][j]) :
                            k \in WithList(f), j \in 1..1} \ {""}
                 /\ Cardinality(Range(matches[1][f])) = Len(matches[1][f])
                 /\ Get(MergePrefs(config), f, "") = ""
                 /\ Range(matches[1]._mergedFieldSources[f])
                      = {TieGroup[k]._provider : k \in WithList(f)}

\* the union of two members' genres that differ only in case and spacing
C21_UnionFolded ==
    /\ pc = "responded" /\ HasMerged
    /\ Get(MergePrefs(config), "genres", "") = ""
    /\ Cardinality(WithList("genres")) = 2
    /\ matches[1].genres = <<"scifi">>

\* tags are preferred from a provider that has none in the tie group
C21_PreferredWithoutList ==
    /\ pc = "responded" /\ HasMerged
    /\ Get(MergePrefs(config), "tags", "") # ""
    /\ PreferredWithList("tags") = {}
    /\ WithList("tags") # {}


----------------------------------------------------------------------------
(* The series of the merged record *)

\* the non-empty series names a member carries, as a string or in an array
SeriesNames(i) ==
    IF ~Has(i, "series") THEN {}
    ELSE IF Has(i.series, "arr") THEN Range(i.series.arr) \ {""}
    ELSE {i.series.str} \ {""}

\* the decimal numerals of the series indices 1..3
Decimal == <<"1", "2", "3">>

\* member i supplied the series value v of the merged record
Supplies(i, v) ==
    /\ Has(i, "series")
    /\ \/ v = i.series
       \/ Has(v, "str") /\ v.str \in SeriesNames(i)

\* the merged record has no series, or a list of exactly one object
C22_AtMostOneSeries ==
    (pc = "responded" /\ HasMerged) =>
        /\ Has(matches[1], "series") => Len(matches[1].series) = 1
        /\ (\A k \in DOMAIN TieGroup : SeriesNames(TieGroup[k]) = {})
              => ~Has(matches[1], "series")

\* C22: when some member of the tie group has a non-empty series, as a bare
\* string or as an array, the merged series is a list of exactly one object
\* whose series is a series name of a member; when no member has one, the
\* merged record has no series
C22_SeriesNormalized ==
    (pc = "responded" /\ HasMerged) =>
        IF \E k \in DOMAIN TieGroup : SeriesNames(TieGroup[k]) # {}
        THEN /\ Has(matches[1], "series")
             /\ Len(matches[1].series) = 1
             /\ \E k \in DOMAIN TieGroup :
                   \E n \in SeriesNames(TieGroup[k]) :
                       matches[1].series[1].series = [str |-> n]
        ELSE ~Has(matches[1], "series")

\* a series given as an array is normalised to one {series, sequence} object
C22_ArrayNormalized ==
    /\ pc = "responded" /\ HasMerged
    /\ Has(matches[1], "series")
    /\ matches[1].series = <<[series |-> [str |-> "saga"], sequence |-> "1"]>>

\* the only series of the tie group is a bare string and no series preference
\* is set
C22_BareStringOnly ==
    /\ pc = "responded" /\ HasMerged
    /\ Get(MergePrefs(config), "series", "") = ""
    /\ \E k \in DOMAIN TieGroup : SeriesNames(TieGroup[k]) # {}
    /\ \A k \in DOMAIN TieGroup :
          Has(TieGroup[k], "series") => Has(TieGroup[k].series, "str")

\* with a series preference the sequence is the preferred member's own
C23_PreferredSequence ==
    (/\ pc = "responded" /\ HasMerged
     /\ Has(matches[1], "series")
     /\ \E k \in DOMAIN TieGroup :
           /\ TieGroup[k]._provider = Get(MergePrefs(config), "series", "")
           /\ SeriesNames(TieGroup[k]) # {}
           /\ ~(Has(TieGroup[k].series, "arr") /\ TieGroup[k].series.arr[1] = ""))
    => \E k \in DOMAIN TieGroup :
          /\ TieGroup[k]._provider = MergePrefs(config).series
          /\ Supplies(TieGroup[k], matches[1].series[1].series)
          /\ IF Has(TieGroup[k], "seriesIndex")
             THEN /\ Has(matches[1].series[1], "sequence")
                  /\ matches[1].series[1].sequence = Decimal[TieGroup[k].seriesIndex]
             ELSE ~Has(matches[1].series[1], "sequence")

\* C23: the sequence of the merged series entry is that of the member that
\* supplied the series value, and is absent when that member has no
\* seriesIndex
C23_SequenceFromSupplier ==
    (pc = "responded" /\ HasMerged /\ Has(matches[1], "series")) =>
        \E k \in DOMAIN TieGroup :
            /\ Supplies(TieGroup[k], matches[1].series[1].series)
            /\ IF Has(TieGroup[k], "seriesIndex")
               THEN /\ Has(matches[1].series[1], "sequence")
                    /\ matches[1].series[1].sequence = Decimal[TieGroup[k].seriesIndex]
               ELSE ~Has(matches[1].series[1], "sequence")

\* the supplier of the series has no seriesIndex and another member has one
C23_SupplierWithoutSequence ==
    /\ pc = "responded" /\ HasMerged /\ Has(matches[1], "series")
    /\ \E k, o \in DOMAIN TieGroup :
          /\ Supplies(TieGroup[k], matches[1].series[1].series)
          /\ ~Has(TieGroup[k], "seriesIndex")
          /\ ~Supplies(TieGroup[o], matches[1].series[1].series)
          /\ Has(TieGroup[o], "seriesIndex")


----------------------------------------------------------------------------
(* The identifiers of the merged record *)

\* member o comes strictly before member m in resolution order
ResolvesBefore(o, m) ==
    \/ PriorityNum(o) > PriorityNum(m)
    \/ PriorityNum(o) = PriorityNum(m) /\ CountNonEmpty(o) > CountNonEmpty(m)

\* the members that have a non-empty value for identifier key k and no such
\* member strictly before them
FirstWith(k) ==
    {m \in Range(TieGroup) :
        /\ HasIdentifier(m, k)
        /\ \A o \in Range(TieGroup) : HasIdentifier(o, k) => ~ResolvesBefore(o, m)}

C24_WitnessEmptySkipped ==
    /\ pc = "responded" /\ HasMerged
    /\ \E m \in Range(TieGroup) :
          /\ Has(m, "identifiers") /\ Get(m.identifiers, "isbn", "x") = ""
          /\ PriorityNum(m) = 10
    /\ Get(matches[1].identifiers, "isbn", "") = "222"

\* the members of the provider preferred for identifiers with a value for k
PreferredWith(k) ==
    {m \in Range(TieGroup) :
        m._provider = Get(MergePrefs(config), "identifiers", "") /\ HasIdentifier(m, k)}

C29_WitnessAgree ==
    /\ pc = "responded" /\ HasMerged
    /\ Get(MergePrefs(config), "identifiers", "") = ""
    /\ \A m \in Range(TieGroup) : HasIdentifier(m, "isbn")
    /\ matches[1].isbn = matches[1].identifiers.isbn


----------------------------------------------------------------------------
(* Discarding the merged record *)

\* the record the merge block built for this request
Built == BuildMerged(MergePrefs(config), TieGroup)

\* the merge block built a record and did not prepend it
Discarded ==
    /\ pc = "responded"
    /\ MergeFires(config, Rank(fullResults))
    /\ ~MergeThrows(config, Rank(fullResults))
    /\ ~HasMerged

\* C25 as stated: a discarded record holds, for title, authors and each of the
\* fields the redundancy check reads, no value other than the top result's
C25_DiscardedEqualsTop ==
    Discarded =>
        LET built == Built
            top == Rank(fullResults)[1]
        IN \A f \in {"title", "authors"} \cup MergedFields :
               NonEmpty(built, f) => Has(top, f) /\ top[f] = built[f]

\* C25: a discarded record has the title and the ordered authors of the top
\* result, and the top result has a non-empty value for every field of the
\* redundancy check for which the record has one
C25_DiscardedCovered ==
    Discarded =>
        LET built == Built
            top == Rank(fullResults)[1]
        IN /\ top.title = built.title
           /\ top.authors = built.authors
           /\ \A f \in MergedFields : NonEmpty(built, f) => NonEmpty(top, f)

\* a record is discarded whose narrator is not the top result's
C25_Witness ==
    /\ Discarded
    /\ Built.narrator # ""
    /\ Built.narrator # Rank(fullResults)[1].narrator


----------------------------------------------------------------------------
(* The merged record between its insertion and the response *)

\* the merged record as fullResults.unshift(merged) inserted it
Inserted == LET b == Built IN [k \in DOMAIN b \ {"authorsNotArray"} |-> b[k]]

\* C27 as stated: the merged record of the response equals, field for field,
\* the record that was inserted
C27_NeverMutated ==
    (pc = "responded" /\ HasMerged) => matches[1] = Inserted

\* C27: the merged record of the response is the inserted record except that
\* `authors` has lost its empty names, `author` (the joined authors) has been
\* added when there is an author, and an empty subtitle or publisher has been
\* filled from identifiers.title or source.description
C27_OnlyNormalized ==
    (pc = "responded" /\ HasMerged) =>
        LET ins == Inserted
            sent == matches[1]
        IN /\ DOMAIN sent \ {"author"} = DOMAIN ins
           /\ \A f \in DOMAIN ins \ {"authors", "subtitle", "publisher"} : sent[f] = ins[f]
           /\ sent.authors = SelectSeq(ins.authors, LAMBDA a : a # "")
           /\ IF Len(sent.authors) > 0
              THEN Has(sent, "author") /\ sent.author = sent.authors
              ELSE ~Has(sent, "author")
           /\ sent.subtitle
                 = IF ins.subtitle = "" /\ Get(ins.identifiers, "title", "") # ""
                   THEN ins.identifiers.title ELSE ins.subtitle
           /\ sent.publisher
                 = IF ins.publisher = "" /\ Get(ins.source, "description", "") # ""
                   THEN ins.source.description ELSE ins.publisher

\* the merged record was inserted without a publisher and is sent with the
\* description of its source as publisher, and with an `author`
C27_Witness ==
    /\ pc = "responded" /\ HasMerged
    /\ Inserted.publisher = ""
    /\ matches[1].publisher = "Merged result"
    /\ ~Has(Inserted, "author") /\ Has(matches[1], "author")


----------------------------------------------------------------------------
(* The type filter *)

\* the scored snippets at or above the threshold that are not among the
\* candidates of their provider: no provider is capped here, so the type
\* filter removed them
RemovedByType ==
    IF pc \in {"enriching", "enriched", "responded"}
    THEN {m \in Range(Scored(cfgAtSelect, reqAuthor, all)) :
            /\ m.similarity >= Threshold(cfgAtSelect)
            /\ m.id \notin IdsOf(CandidatesOf(m._provider))}
    ELSE {}

\* a snippet is removed exactly when it counts as an audiobook (by type or
\* format) and audiobooks are disabled, or does not and books are disabled
C26_RemovedByCategory ==
    pc \in {"enriching", "enriched", "responded"} =>
        \A m \in Range(Scored(cfgAtSelect, reqAuthor, all)) :
            m.similarity >= Threshold(cfgAtSelect) =>
                (m \in RemovedByType <=>
                    \/ IsAudio(m) /\ ~Get(cfgAtSelect.global, "allowAudiobooks", TRUE)
                    \/ ~IsAudio(m) /\ ~Get(cfgAtSelect.global, "allowBooks", TRUE))

\* C26: the type filter removes only audiobooks while audiobooks are disabled
\* and books while books are disabled; a snippet of another or of no type is
\* never removed, and nothing is removed while both categories are enabled
C26_OnlyDisabledTypes ==
    \A m \in RemovedByType :
        \/ Get(m, "type", "") = "audiobook" /\ ~Get(cfgAtSelect.global, "allowAudiobooks", TRUE)
        \/ Get(m, "type", "") = "book" /\ ~Get(cfgAtSelect.global, "allowBooks", TRUE)

\* books are disabled and a snippet without a type has been removed
C26_UntypedRemoved ==
    /\ ~Get(cfgAtSelect.global, "allowBooks", TRUE)
    /\ \E m \in RemovedByType : ~Has(m, "type")

\* audiobooks are disabled: an audiobook is removed and a book is kept
C26_AudiobookRemoved ==
    /\ ~Get(cfgAtSelect.global, "allowAudiobooks", TRUE)
    /\ \E m \in RemovedByType : Get(m, "type", "") = "audiobook"
    /\ \E k \in DOMAIN CandidatesOf("lubimyczytac") :
          Get(CandidatesOf("lubimyczytac")[k], "type", "") = "book"


----------------------------------------------------------------------------
(* The pooled and the sequential enrichment path *)

\* the outcome the getFullMetadata call for item k of group g had
OutcomeOf(g, k) ==
    CASE k \in g.thrown -> "throw"
      [] g.results[k].st = "null" -> "null"
      [] g.results[k].st = "hole" -> "full"
      [] g.results[k].v = g.items[k] -> "same"
      [] OTHER -> "full"

\* the sequential fallback run to its end on the items of g with the outcomes
\* o, one fetch after the other
RECURSIVE SeqReplay(_, _)
SeqReplay(g, o) == IF g.k > Len(g.items) THEN g ELSE SeqReplay(SeqSettle(g, o[g.k]), o)

SequentialOutput(g) ==
    SeqReplay([provider |-> g.provider, kind |-> "seq", items |-> g.items, k |-> 1,
               out |-> <<>>, results |-> [j \in DOMAIN g.items |-> Hole],
               calls |-> [j \in DOMAIN g.items |-> 0], thrown |-> {}],
              [k \in DOMAIN g.items |-> OutcomeOf(g, k)]).out

\* what the pooled path returns for the items of g with the same outcomes
PooledOutput(g) ==
    PoolFetched([items |-> g.items,
                 results |-> [k \in DOMAIN g.items |->
                                 IteratorResult(g.provider, g.items[k], OutcomeOf(g, k))]])

\* C28: when a provider's enrichment has finished, by the pool in whatever
\* order its fetches settled or by the sequential fallback, its output is the
\* output of the other path for the same candidates and the same outcomes
C28_PathsEquivalent ==
    \A g \in DOMAIN groups :
        (groups[g].kind \in {"pool", "seq"} /\ GroupDone(groups[g])) =>
            /\ GroupOutput(groups[g]) = SequentialOutput(groups[g])
            /\ GroupOutput(groups[g]) = PooledOutput(groups[g])

\* a pool of two workers has finished two candidates, one fetch having failed
\* and the other not, and the sequential path has finished a failed one
C28_Witness ==
    /\ \E g \in DOMAIN groups :
          /\ groups[g].kind = "pool" /\ GroupDone(groups[g])
          /\ Len(groups[g].items) = 2 /\ Len(groups[g].workers) = 2
          /\ \E j, k \in DOMAIN groups[g].items :
                OutcomeOf(groups[g], j) \in {"null", "throw"}
                /\ OutcomeOf(groups[g], k) = "full"

\* the sequential path has finished two candidates, the first fetch having
\* thrown
C28_WitnessSequential ==
    \E g \in DOMAIN groups :
        /\ groups[g].kind = "seq" /\ GroupDone(groups[g])
        /\ Len(groups[g].items) = 2
        /\ OutcomeOf(groups[g], 1) = "throw"
        /\ OutcomeOf(groups[g], 2) \in {"full", "same"}


----------------------------------------------------------------------------
(* The 429 retry interceptor is bounded *)

\* C30: an upstream call is sent at most 6 times, the original attempt and 5
\* retries; only a 429 is ever followed by another send; a call answered 200
\* resolves, at the first attempt or at a retry; and a call rejects with a
\* 429 only after its sixth send
C30_RetryBounded ==
    \A r \in DOMAIN http.calls :
        LET q == http.calls[r]
            n == Len(q.received)
        IN /\ q.sends <= 6
           /\ q.sends \in {n, n + 1}
           /\ \A i \in 1..(q.sends - 1) : q.received[i] = 429
           /\ (n > 0 /\ q.received[n] = 200) <=> q.st = "resolved"
           /\ q.st \in {"sleeping", "sent"} /\ n > 0 => q.received[n] = 429
           /\ q.st = "rejected" =>
                 /\ q.sends = n
                 /\ q.received[n] = 429 => q.sends = 6

\* six sends were all answered 429 and the error has passed both handlers
C30_Witness ==
    /\ http.interceptors = 2
    /\ \E r \in DOMAIN http.calls :
          /\ http.calls[r].st = "rejected"
          /\ http.calls[r].sends = 6
          /\ http.calls[r].received = <<429, 429, 429, 429, 429, 429>>

\* a retry succeeded, and a call answered 500 was rejected at once
C30_WitnessRetrySucceeded ==
    \E r, o \in DOMAIN http.calls :
        /\ http.calls[r].st = "resolved"
        /\ http.calls[r].received = <<429, 429, 200>>
        /\ http.calls[o].st = "rejected"
        /\ http.calls[o].received = <<500>>

====
